---- MODULE Spec2Model ----
(***************************************************************************)
(* Model of the data-service of Ada-Analytics:                             *)
(*   - the live path: websocket_live_data (main.py) driving a tick loop    *)
(*     over the process-wide maps websocket_connections / websocket_data   *)
(*     filled by start_polygon_websocket / listen_to_polygon_messages      *)
(*     (helpers.py);                                                       *)
(*   - the historical path: calculate_expected_candles,                    *)
(*     resolve_lookback_window and get_polygon_aggregates (helpers.py),    *)
(*     parse_timeframe (helper_functions.py), get_timeframe_config         *)
(*     (helpers.py) and the handler fetch_historical_data (main.py).       *)
(* Four specifications share the variables: Spec (live path), SpecPlan     *)
(* (granularity planner), SpecFetch (aggregate fetcher) and SpecTimeframe  *)
(* (timeframe resolution and the historical handler).                      *)
(***************************************************************************)
EXTENDS Integers, Sequences, FiniteSets, TLC

VARIABLES
    \* ---- environment of the live path
    websocketsInstalled,    \* whether `import websockets` succeeds
    upstream,               \* the upstream connections opened so far, in order
    \* ---- helpers.py module state
    websocket_connections,  \* ticker -> connection id, or NoConn
    websocket_data,         \* ticker -> cached dict, or NoEntry
    \* ---- one websocket_live_data call per session: its locals
    \* (pc is the await it is suspended at) and what it did so far
    session,
    \* ---- historical path
    hpc, quantity, unit, plan, response, fetch_unit, fetch_raises, fetched,
    plan_fixed,             \* the plan of the variant of helper_functions.py
    \* ---- timeframe resolution
    today,                  \* datetime.today().date()
    timeframe,              \* the timeframe text, as its characters
    parsed,                 \* what parse_timeframe returned
    config,                 \* what get_timeframe_config returned
    again,                  \* the same two calls made on another day
    body,                   \* what fetch_historical_data answered
    \* ---- the receive task seen from the feed
    inbound,                \* the message the receive task handled last
    \* ---- backtesting-service
    running_backtests,      \* backtest id -> its status dict, or NoBacktest
    completed_backtests,    \* backtest id -> whether it has an entry
    backtest_task,          \* backtest id -> where its run_backtest is
    backtest_answer,        \* the last answer of GET /backtest/{id}/status
    \* ---- strategy-service
    running_strategies,     \* strategy name -> its dict, or NoStrategy
    strategy_thread,        \* run -> the thread of run_strategy_subprocess
    strategy_answer         \* the last answer of a handler of the service

liveVars == << websocketsInstalled, upstream,
               websocket_connections, websocket_data, session >>

tfVars == << today, timeframe, parsed, config, again, body >>

\* the variables the live path and the historical path leave alone
btVars == << running_backtests, completed_backtests, backtest_task, backtest_answer >>

stVars == << running_strategies, strategy_thread, strategy_answer >>

svcVars == << inbound, btVars, stVars >>

histVars == << hpc, quantity, unit, plan, plan_fixed, response, fetch_unit,
               fetch_raises, fetched, tfVars, svcVars >>

vars == << liveVars, histVars >>

----------------------------------------------------------------------------
\* Bounds of the model

\* iterations of the tick loop that all the sessions together may run
MaxTicks == 2

\* requested quantities: 1 .. MaxQuantity, and MaxQuantity multiples of a
\* step worth about StepMinutes trading minutes
MaxQuantity == 100
StepMinutes == 160000

\* how many candles past the ceiling the upstream may answer with
MaxExcess == 3

\* the client connections, in the order they arrive
Arrivals == << "s1", "s2" >>
Sessions == { Arrivals[i] : i \in DOMAIN Arrivals }
Tickers == {"SPY", "QQQ"}
TradeVals == {"tA"}

\* the instrument a client asks for: the first client for SPY, a later one
\* for the same instrument or another (the instruments are interchangeable)
Requested(s) == IF s = Arrivals[1] THEN {"SPY"} ELSE Tickers

\* None, where the code holds a connection or nothing
NoConn == 0
\* a dict without the key "data_count"
NoCount == -1

----------------------------------------------------------------------------
\* Live path: values

BoolStr(b) == IF b THEN "true" ELSE "false"

\* websocket_data has no entry for the ticker
NoEntry ==
    [type |-> "absent", trade |-> "none", quote |-> "none", timestamp |-> "absent",
     connection_status |-> "absent", data_source |-> "absent",
     message |-> "absent", market_open |-> "absent", data_count |-> NoCount]

\* the dict the receive task stores for a trade event (helpers.py:315-324)
TradeEntry(v) ==
    [type |-> "trade", trade |-> v, quote |-> "none", timestamp |-> "event",
     connection_status |-> "absent", data_source |-> "absent",
     message |-> "absent", market_open |-> "absent", data_count |-> NoCount]

\* the default dict of get_websocket_live_data (helpers.py:372-378)
DefaultEntry ==
    [type |-> "no_data", trade |-> "none", quote |-> "none", timestamp |-> "now",
     connection_status |-> "absent", data_source |-> "absent",
     message |-> "no_recent_data", market_open |-> "absent", data_count |-> NoCount]

\* what get_polygon_live_data can return: a live_data dict with a trade and a
\* quote that are each present or None, or the error dict (no trade, no quote)
RestResults ==
    { [type |-> ty, trade |-> tr, quote |-> q, timestamp |-> "now",
       connection_status |-> "absent", data_source |-> "absent",
       message |-> "absent", market_open |-> "absent", data_count |-> NoCount] :
         ty \in {"None"}, tr \in {"none", "tA"}, q \in {"none"} }
    \cup
    { [type |-> "error", trade |-> "none", quote |-> "none", timestamp |-> "absent",
       connection_status |-> "absent", data_source |-> "absent",
       message |-> "absent", market_open |-> "absent", data_count |-> NoCount] }

\* dict.get("type"): None for the dicts that have no such key
GetType(d) == IF d.type = "error" THEN "None" ELSE d.type

\* Fingerprint without the market status of main.py:177
Fingerprint_NoMarket(d, mo) ==
    [trade |-> d.trade, quote |-> d.quote, market_open |-> "any",
     connection_status |-> d.connection_status, type |-> GetType(d)]

\* data_to_hash of main.py:174-180; hash(str(.)) is taken to be injective on it
Fingerprint(d, mo) ==
    [trade |-> d.trade, quote |-> d.quote, market_open |-> BoolStr(mo),
     connection_status |-> d.connection_status, type |-> GetType(d)]

\* last_data_hash = None
NoHash ==
    [trade |-> "none", quote |-> "none", market_open |-> "None",
     connection_status |-> "None", type |-> "None"]

\* the keys of a status message (main.py:76-129), and of the error message
\* (main.py:210-217)
StatusKeys(st) ==
    IF st = "error"
    THEN {"status", "ticker", "connection_status", "message", "timestamp", "error_details"}
    ELSE {"status", "ticker", "message", "timestamp"}

\* the keys of a dict of the tick loop: the dict of get_polygon_live_data has
\* no key "type" (helpers.py:272-288), its error dict has neither "ticker" nor
\* "type" (helpers.py:294), and a key a dict was never given is absent
KeysOf(d) ==
    { k \in {"timestamp", "connection_status", "data_source", "message", "market_open"} :
        d[k] # "absent" }
      \cup (IF d.data_count # NoCount THEN {"data_count"} ELSE {})
      \cup (IF d.type \notin {"None", "error", "absent"} THEN {"type"} ELSE {})
      \cup (IF d.type \notin {"error", "absent"} THEN {"ticker"} ELSE {})
      \cup (IF d.type = "error" THEN {"error", "details"} ELSE {})

StatusFrame(st) ==
    [status |-> st, data_count |-> NoCount, data_source |-> "absent",
     keys |-> StatusKeys(st)]
DataFrame(d) ==
    [status |-> "data", data_count |-> d.data_count, data_source |-> d.data_source,
     keys |-> KeysOf(d)]

----------------------------------------------------------------------------
\* Live path: initial state

\* get_polygon_aggregates has not been called
NotFetched ==
    [kind |-> "none", error |-> "none", details |-> "none", aggs |-> << >>,
     truncated |-> FALSE, warned |-> FALSE, calls |-> 0]

\* resolve_lookback_window has not been called
NotPlanned == [mult |-> 0, unit |-> "none", days_back |-> 0, start |-> 0, end |-> 0]

\* a date, as its year and its day of the year
NewYear2025 == [year |-> 2025, doy |-> 1]

\* parse_timeframe, get_timeframe_config, fetch_historical_data have not
\* been called
NotParsed == [kind |-> "none", quantity |-> 0, unit |-> "none"]
NoConfig == [kind |-> "none", mult |-> 0, unit |-> "none", days_back |-> 0,
             start |-> 0, end |-> 0]
NoBody == [kind |-> "none", error |-> "none", details |-> "none", data_points |-> 0]
NotAgain == [today |-> NewYear2025, parsed |-> NotParsed, config |-> NoConfig]

\* the receive task has handled no message
NoMessage == [conn |-> NoConn, events |-> << >>]

\* the backtests that can be submitted: uuid4 gives each a new id
MaxBacktests == 3
BacktestIds == 1 .. MaxBacktests

\* a backtest id that is not a key of running_backtests
NoBacktest == [status |-> "absent", progress |-> 0]

\* no status request has been answered
NoAnswer == [id |-> 0, code |-> 0, status |-> "none", progress |-> 0]

\* the backtesting service after its start (backtesting-service/main.py:23-24)
BtInit ==
    /\ running_backtests = [b \in BacktestIds |-> NoBacktest]
    /\ completed_backtests = [b \in BacktestIds |-> FALSE]
    /\ backtest_task = [b \in BacktestIds |-> "none"]
    /\ backtest_answer = NoAnswer

\* the runs the strategy service may start
MaxRuns == 3
Runs == 1 .. MaxRuns

\* the directories of strategies/ that hold a test_strategy.py, and the names
\* a request can carry
OnDisk == {"nancy-p-chips"}
StrategyNames == OnDisk \cup {"unknown"}

\* a name that is not a key of running_strategies; `run` is the run whose
\* handler stored the dict (it is not a key of the dict)
NoStrategy ==
    [id |-> -1, status |-> "absent", output |-> "", error |-> "",
     return_code |-> "None", run |-> 0]

\* a thread that has not been started
NoThread == [name |-> "none", pc |-> "none"]

\* no request has been answered
NoReply == [op |-> "none", name |-> "none", code |-> 0, status |-> "none"]

\* the strategy service after its start (strategy-service/main.py:23)
StInit ==
    /\ running_strategies = [n \in StrategyNames |-> NoStrategy]
    /\ strategy_thread = [k \in Runs |-> NoThread]
    /\ strategy_answer = NoReply

SvcIdle ==
    /\ inbound = NoMessage
    /\ BtInit
    /\ StInit

TfIdle ==
    /\ today = NewYear2025
    /\ timeframe = << >>
    /\ parsed = NotParsed
    /\ config = NoConfig
    /\ again = NotAgain
    /\ body = NoBody

HistIdle ==
    /\ TfIdle
    /\ SvcIdle
    /\ plan_fixed = NotPlanned
    /\ hpc = "off"
    /\ quantity = 1
    /\ unit = "day"
    /\ plan = NotPlanned
    /\ response = << >>
    /\ fetch_unit = "day"
    /\ fetch_raises = FALSE
    /\ fetched = NotFetched

\* locals of websocket_live_data before its first statement, and the record of
\* what the session did
NewSession ==
    [pc |-> "idle", ticker |-> "none",
     connection_status |-> "initializing",      \* main.py:72
     polygon_ws_client |-> NoConn,              \* main.py:71
     ws |-> NoConn,                             \* ws of start_polygon_websocket
     auth_response |-> "none",                  \* auth_response of the same
     market_open |-> FALSE, current_hash |-> NoHash,
     last_data_hash |-> NoHash, market_status_sent |-> FALSE, data_count |-> 0,
     out_frame |-> StatusFrame("none"),         \* text of the pending send_text
     connect_market |-> "unknown",              \* is_market_open() at main.py:85
     acquire_calls |-> 0,                       \* calls of start_polygon_websocket
     frames |-> << >>,                          \* frames delivered, in order
     ticks |-> 0,                               \* loop iterations started
     tick_emitted |-> FALSE,                    \* the latest iteration sent
     client_gone |-> FALSE,                     \* a send to the client has failed
     close_called |-> FALSE, outcome |-> "running"]

LiveInit ==
    /\ websocketsInstalled \in BOOLEAN
    /\ upstream = << >>
    /\ websocket_connections = [t \in Tickers |-> NoConn]
    /\ websocket_data = [t \in Tickers |-> NoEntry]
    /\ session = [s \in Sessions |-> NewSession]

Init == LiveInit /\ HistIdle

----------------------------------------------------------------------------
\* Live path: websocket_live_data (main.py:66-219)

\* The clock and the client are read where the code reads them: each call of
\* is_market_open() (helpers.py:30-43) returns either value, and each send_text
\* returns or, the client having gone away, raises; once a send has raised,
\* every later send to that client raises.

\* the exceptions a send_text to a client that has gone away can raise
SendErrors == {"disconnect", "error"}

\* the outcomes of a send_text of session record r
SendOutcomes(r) == IF r.client_gone THEN SendErrors ELSE {"ok"} \cup SendErrors

\* the send of r.out_frame returned
Delivered(r) == [r EXCEPT !.frames = Append(@, r.out_frame)]

\* the call of websocket_live_data is over: its locals are gone, what the
\* session did stays on record
Return(r, how) ==
    [NewSession EXCEPT !.pc = "closed", !.outcome = how, !.ticker = r.ticker,
                       !.polygon_ws_client = r.polygon_ws_client,
                       !.connect_market = r.connect_market,
                       !.acquire_calls = r.acquire_calls,
                       !.frames = r.frames, !.ticks = r.ticks,
                       !.client_gone = r.client_gone,
                       !.close_called = r.close_called]

\* an exception reaches the handlers of the outer try (main.py:207-219):
\* WebSocketDisconnect ends the call, any other Exception awaits the send of
\* the error frame
Raise(r, kind) ==
    IF kind = "disconnect"
    THEN Return([r EXCEPT !.client_gone = TRUE], "disconnected")
    ELSE [r EXCEPT !.pc = "send_error", !.out_frame = StatusFrame("error"),
                   !.client_gone = TRUE]

\* AfterAcquire without the test of main.py:92
AfterAcquire_NoTest(r, c) ==
    [r EXCEPT !.polygon_ws_client = c, !.connection_status = "connected",
              !.out_frame = StatusFrame("connected"), !.pc = "send_connected",
              !.ws = NoConn, !.auth_response = "none"]

\* AfterAcquire calling start_polygon_websocket again when it returned None
AfterAcquire_Retry(r, c) ==
    IF c # NoConn
    THEN [r EXCEPT !.polygon_ws_client = c, !.connection_status = "connected",
                   !.out_frame = StatusFrame("connected"), !.pc = "send_connected",
                   !.ws = NoConn, !.auth_response = "none"]
    ELSE [r EXCEPT !.acquire_calls = @ + 1, !.pc = "acq_connect",
                   !.ws = NoConn, !.auth_response = "none"]

\* start_polygon_websocket returned c (main.py:90-109)
AfterAcquire(r, c) ==
    IF c # NoConn
    THEN [r EXCEPT !.polygon_ws_client = c, !.connection_status = "connected",
                   !.out_frame = StatusFrame("connected"), !.pc = "send_connected",
                   !.ws = NoConn, !.auth_response = "none"]
    ELSE [r EXCEPT !.polygon_ws_client = c, !.connection_status = "failed",
                   !.out_frame = StatusFrame("connection_failed"), !.pc = "send_failed",
                   !.ws = NoConn, !.auth_response = "none"]

\* an exception inside the inner try (main.py:111-119)
InnerExcept(r) ==
    [r EXCEPT !.connection_status = "failed",
              !.out_frame = StatusFrame("connection_error"), !.pc = "send_conn_error"]

\* a send inside the inner try raised
InnerSendFailed(r) == InnerExcept([r EXCEPT !.client_gone = TRUE])

\* MarketClosedBranch sending the frame of main.py:103-109 instead
MarketClosedBranch_FailFrame(r) ==
    [r EXCEPT !.connection_status = "failed",
              !.out_frame = StatusFrame("connection_failed"), !.pc = "send_market_closed"]

\* the market is closed at connect (main.py:120-129)
MarketClosedBranch(r) ==
    [r EXCEPT !.connection_status = "failed",
              !.out_frame = StatusFrame("market_closed"), !.pc = "send_market_closed"]

\* start_polygon_websocket up to its first await (helpers.py:328-342), called
\* from main.py:90
StartPolygonWebsocket(r) ==
    LET r1 == [r EXCEPT !.acquire_calls = @ + 1] IN
    IF ~websocketsInstalled THEN InnerExcept(r1)
    ELSE IF websocket_connections[r.ticker] # NoConn
         THEN AfterAcquire(r1, websocket_connections[r.ticker])
         ELSE [r1 EXCEPT !.pc = "acq_connect"]

\* CheckMarket without the test of main.py:87
CheckMarket_NoGate(r, mo) ==
    StartPolygonWebsocket([r EXCEPT !.market_open = mo, !.connect_market = BoolStr(mo)])

\* main.py:84-129, from the market check to the next await; mo is what
\* is_market_open() returns at main.py:85
CheckMarket(r, mo) ==
    LET r1 == [r EXCEPT !.market_open = mo, !.connect_market = BoolStr(mo)] IN
    IF mo THEN StartPolygonWebsocket(r1) ELSE MarketClosedBranch(r1)

\* the client connects to /live-data/{t}: main.py:66-82
Accept(s, t) ==
    /\ session[s].pc = "idle"
    /\ t \in Requested(s)
    /\ \A i, j \in DOMAIN Arrivals :
          (i < j /\ Arrivals[j] = s) => session[Arrivals[i]].pc # "idle"
    /\ session' = [session EXCEPT ![s] =
          [@ EXCEPT !.ticker = t, !.pc = "send_connecting",
                    !.out_frame = StatusFrame("connecting")]]
    /\ UNCHANGED << websocketsInstalled, upstream,
                    websocket_connections, websocket_data, histVars >>

\* the send of the "connecting" frame returns or raises: main.py:82-129
Connecting(s, o, mo) ==
    /\ session[s].pc = "send_connecting"
    /\ o \in SendOutcomes(session[s])
    /\ session' = [session EXCEPT ![s] =
          IF o = "ok" THEN CheckMarket(Delivered(@), mo) ELSE Raise(@, o)]
    /\ UNCHANGED << websocketsInstalled, upstream,
                    websocket_connections, websocket_data, histVars >>

----------------------------------------------------------------------------
\* Live path: start_polygon_websocket after its first await (helpers.py:342-367)

\* a connection websockets.connect has just returned
NewUpstream(t) ==
    [ticker |-> t, auth |-> "none", subscribed |-> FALSE,
     task_started |-> FALSE, listening |-> FALSE,
     close_called |-> FALSE]     \* ws.close(): no statement of helpers.py calls it

\* websockets.connect returns: helpers.py:342-347
AcquireConnect(s) ==
    /\ session[s].pc = "acq_connect"
    /\ upstream' = Append(upstream, NewUpstream(session[s].ticker))
    /\ session' = [session EXCEPT ![s] =
          [@ EXCEPT !.ws = Len(upstream) + 1, !.pc = "acq_auth_send"]]
    /\ UNCHANGED << websocketsInstalled,
                    websocket_connections, websocket_data, histVars >>

\* the send of the auth message returns: helpers.py:347-351
AcquireAuthSend(s) ==
    /\ session[s].pc = "acq_auth_send"
    /\ upstream' = [upstream EXCEPT ![session[s].ws].auth = "sent"]
    /\ session' = [session EXCEPT ![s].pc = "acq_auth_recv"]
    /\ UNCHANGED << websocketsInstalled,
                    websocket_connections, websocket_data, histVars >>

\* what the feed answers to the auth message
AuthAnswers == {"auth_success", "auth_failed"}

\* the auth response arrives; whatever it says, it is only printed and the
\* subscribe message is sent next: helpers.py:351-356
AcquireAuthRecv(s, ans) ==
    /\ session[s].pc = "acq_auth_recv"
    /\ upstream' = [upstream EXCEPT ![session[s].ws].auth = "answered"]
    /\ session' = [session EXCEPT ![s] =
          [@ EXCEPT !.auth_response = ans, !.pc = "acq_sub_send"]]
    /\ UNCHANGED << websocketsInstalled,
                    websocket_connections, websocket_data, histVars >>

\* the registration of helpers.py:362
Register(conns, t, c) == [conns EXCEPT ![t] = c]

\* the send of the subscribe message returns; the receive task is created, the
\* connection registered and returned: helpers.py:356-363, main.py:92-100
AcquireSubscribe(s) ==
    /\ session[s].pc = "acq_sub_send"
    /\ upstream' = [upstream EXCEPT ![session[s].ws] =
          [@ EXCEPT !.subscribed = TRUE, !.task_started = TRUE, !.listening = TRUE]]
    /\ websocket_connections' =
          Register(websocket_connections, session[s].ticker, session[s].ws)
    /\ session' = [session EXCEPT ![s] = AfterAcquire(@, session[s].ws)]
    /\ UNCHANGED << websocketsInstalled,
                    websocket_data, histVars >>

\* one of the awaits of helpers.py:342-356 raises: None is returned
\* (helpers.py:365-367, main.py:101-109)
AcquireFails(s) ==
    /\ session[s].pc \in {"acq_connect", "acq_auth_send", "acq_auth_recv", "acq_sub_send"}
    /\ session' = [session EXCEPT ![s] = AfterAcquire(@, NoConn)]
    /\ UNCHANGED << websocketsInstalled, upstream,
                    websocket_connections, websocket_data, histVars >>

----------------------------------------------------------------------------
\* Live path: the receive task, listen_to_polygon_messages (helpers.py:300-326)

\* the cache after one event of a message
OnEvent(data, t, ev, sym, v) ==
    IF ev = "T" /\ sym = t THEN [data EXCEPT ![t] = TradeEntry(v)] ELSE data

\* the events a connection subscribed for ticker t can carry: its trades, and
\* events the loop ignores (another kind, another symbol)
EventsOn(t) ==
    { << "T", t, v >> : v \in TradeVals }
      \cup { << "Q", t, v >> : v \in {"qA"} }
      \cup { << "T", sym, v >> : sym \in Tickers \ {t}, v \in {"tA"} }

\* a message with one event arrives on connection c
Receive(c, ev, sym, v) ==
    /\ c \in DOMAIN upstream
    /\ upstream[c].listening
    /\ websocket_data' = OnEvent(websocket_data, upstream[c].ticker, ev, sym, v)
    /\ UNCHANGED << websocketsInstalled, upstream,
                    websocket_connections, session, histVars >>

\* TaskEnded ending the receive task of every connection
TaskEnded_All(ups, c) == [i \in DOMAIN ups |-> [ups[i] EXCEPT !.listening = FALSE]]

\* the receive task of connection c is over
TaskEnded(ups, c) == [ups EXCEPT ![c].listening = FALSE]

\* websocket.recv() raises on connection c (the connection is closed or
\* broken), or a message is not the JSON the loop expects: the exception is
\* printed and the task ends (helpers.py:325-326); the registry keeps c
ReceiveFails(c) ==
    /\ c \in DOMAIN upstream
    /\ upstream[c].listening
    /\ upstream' = TaskEnded(upstream, c)
    /\ UNCHANGED << websocketsInstalled, websocket_connections, websocket_data,
                    session, histVars >>

----------------------------------------------------------------------------
\* Live path: the tick loop (main.py:131-205)

\* get_websocket_live_data (helpers.py:370-378): the cached dict itself when
\* there is one, a fresh default dict otherwise
GetWebsocketLiveData(data, t) == IF data[t] # NoEntry THEN data[t] ELSE DefaultEntry

\* current_data after main.py:142-170, mo being is_market_open() of main.py:140
CurrentData(r, rest, mo) ==
    IF r.connection_status = "connected"
    THEN LET d == GetWebsocketLiveData(websocket_data, r.ticker) IN
         [d EXCEPT !.connection_status = "ws_active",
                   !.data_source = "polygon_websocket",
                   !.message = IF d.type = "no_data"
                               THEN (IF ~mo THEN "closed_will_resume" ELSE "waiting")
                               ELSE "live_streaming",
                   !.market_open = BoolStr(mo),
                   !.timestamp = "now"]
    ELSE [rest EXCEPT !.connection_status = "rest_fallback",
                      !.data_source = "polygon_rest",
                      !.message = IF ~mo THEN "closed_prev_close" ELSE "rest_fallback",
                      !.market_open = BoolStr(mo),
                      !.timestamp = "now"]

\* ShouldSend without the flag of main.py:189
ShouldSend_ClosedAlways(r, hash, mo) ==
    \/ r.last_data_hash = NoHash
    \/ hash # r.last_data_hash
    \/ ~mo

\* the condition of main.py:187-189
ShouldSend(r, hash, mo) ==
    \/ r.last_data_hash = NoHash
    \/ hash # r.last_data_hash
    \/ (~mo /\ ~r.market_status_sent)

\* main.py:200-202
ResetFlag(r) ==
    IF r.market_open /\ r.market_status_sent
    THEN [r EXCEPT !.market_status_sent = FALSE] ELSE r

\* AfterSend without main.py:197-198
AfterSend_NoFlag(r) ==
    [r EXCEPT !.last_data_hash = r.current_hash, !.data_count = @ + 1]

\* AfterSend without main.py:195
AfterSend_NoCount(r) ==
    [r EXCEPT !.last_data_hash = r.current_hash,
              !.market_status_sent = IF ~r.market_open THEN TRUE ELSE @]

\* main.py:194-198, after the send of a data frame returned
AfterSend(r) ==
    [r EXCEPT !.last_data_hash = r.current_hash,
              !.data_count = @ + 1,
              !.market_status_sent = IF ~r.market_open THEN TRUE ELSE @]

\* what one iteration reads from the provider in Fallback mode
\* (get_polygon_live_data, helpers.py:242-295)
Polled(r) == IF r.connection_status = "connected" THEN {DefaultEntry} ELSE RestResults

RECURSIVE TicksOf(_)
\* the iterations the sessions of S have started
TicksOf(S) ==
    IF S = {} THEN 0
    ELSE LET s == CHOOSE x \in S : TRUE IN session[s].ticks + TicksOf(S \ {s})

\* one iteration from main.py:136 to its next await: the send of main.py:192
\* or the sleep of main.py:205; mo is what is_market_open() returns at
\* main.py:140. In Push mode current_data is the cached dict itself, so what
\* the iteration stores in it is stored in websocket_data.
Iteration(s, r, mo) ==
    /\ TicksOf(Sessions) < MaxTicks
    /\ \E rest \in Polled(r) :
         LET cur == CurrentData(r, rest, mo)
             hash == Fingerprint(cur, mo)
             send == ShouldSend(r, hash, mo)
             sent == IF send THEN [cur EXCEPT !.data_count = r.data_count] ELSE cur
             shared == r.connection_status = "connected"
                         /\ websocket_data[r.ticker] # NoEntry
             r1 == [r EXCEPT !.market_open = mo, !.current_hash = hash,
                             !.ticks = @ + 1, !.tick_emitted = send]
         IN /\ websocket_data' = IF shared
                                  THEN [websocket_data EXCEPT ![r.ticker] = sent]
                                  ELSE websocket_data
            /\ session' = [session EXCEPT ![s] =
                  IF send
                  THEN [r1 EXCEPT !.out_frame = DataFrame(sent), !.pc = "send_data"]
                  ELSE [ResetFlag(r1) EXCEPT !.pc = "sleep"]]

\* the locals of main.py:131-133
LoopLocals(r) ==
    [r EXCEPT !.data_count = 0, !.last_data_hash = NoHash, !.market_status_sent = FALSE]

\* the send of a status frame of main.py:100/109/119/129 returns or raises;
\* when it returns the loop starts
StatusSent(s, o, mo) ==
    /\ session[s].pc \in {"send_connected", "send_failed",
                          "send_conn_error", "send_market_closed"}
    /\ o \in SendOutcomes(session[s])
    /\ IF o = "ok"
       THEN Iteration(s, LoopLocals(Delivered(session[s])), mo)
       ELSE /\ session' = [session EXCEPT ![s] =
                  IF session[s].pc \in {"send_connected", "send_failed"}
                  THEN InnerSendFailed(@) ELSE Raise(@, o)]
            /\ UNCHANGED websocket_data
    /\ UNCHANGED << websocketsInstalled, upstream, websocket_connections, histVars >>

\* the send of a data frame (main.py:192) returns or raises
DataSent(s, o) ==
    /\ session[s].pc = "send_data"
    /\ o \in SendOutcomes(session[s])
    /\ session' = [session EXCEPT ![s] =
          IF o = "ok"
          THEN [ResetFlag(AfterSend(Delivered(@))) EXCEPT !.pc = "sleep"]
          ELSE Raise(@, o)]
    /\ UNCHANGED << websocketsInstalled, upstream,
                    websocket_connections, websocket_data, histVars >>

\* the sleep of main.py:205 is over
Wake(s, mo) ==
    /\ session[s].pc = "sleep"
    /\ Iteration(s, session[s], mo)
    /\ UNCHANGED << websocketsInstalled, upstream, websocket_connections, histVars >>

\* the send of the error frame (main.py:218) returns, and the connection is
\* closed (main.py:219), or it raises and the exception leaves the handler
ErrorSent(s, o) ==
    /\ session[s].pc = "send_error"
    /\ o \in SendOutcomes(session[s])
    /\ session' = [session EXCEPT ![s] =
          IF o = "ok"
          THEN Return([Delivered(@) EXCEPT !.close_called = TRUE], "error_closed")
          ELSE Return(@, "propagated")]
    /\ UNCHANGED << websocketsInstalled, upstream,
                    websocket_connections, websocket_data, histVars >>

----------------------------------------------------------------------------
\* Live path: next-state relation

Outcomes == {"ok"} \cup SendErrors

Next ==
    \/ \E s \in Sessions, t \in Tickers : Accept(s, t)
    \/ \E s \in Sessions, o \in Outcomes, mo \in BOOLEAN : Connecting(s, o, mo)
    \/ \E s \in Sessions : AcquireConnect(s)
    \/ \E s \in Sessions : AcquireAuthSend(s)
    \/ \E s \in Sessions, ans \in AuthAnswers : AcquireAuthRecv(s, ans)
    \/ \E s \in Sessions : AcquireSubscribe(s)
    \/ \E s \in Sessions : AcquireFails(s)
    \/ \E s \in Sessions, o \in Outcomes, mo \in BOOLEAN : StatusSent(s, o, mo)
    \/ \E s \in Sessions, o \in Outcomes : DataSent(s, o)
    \/ \E s \in Sessions, mo \in BOOLEAN : Wake(s, mo)
    \/ \E s \in Sessions, o \in Outcomes : ErrorSent(s, o)
    \/ \E c \in DOMAIN upstream : \E e \in EventsOn(upstream[c].ticker) :
          Receive(c, e[1], e[2], e[3])
    \/ \E c \in DOMAIN upstream : ReceiveFails(c)

Spec == Init /\ [][Next]_vars

----------------------------------------------------------------------------
\* Live path: properties

\* the awaits inside the tick loop
LoopPcs == {"send_data", "sleep"}

\* the upstream connections opened for ticker t
OpenedFor(t) == { c \in DOMAIN upstream : upstream[c].ticker = t }

\* the data frames session s delivered
DataFramesOf(s) ==
    { i \in DOMAIN session[s].frames : session[s].frames[i].status = "data" }

\* C1: however the calls of start_polygon_websocket for one instrument
\* interleave, at most one upstream connection is opened for it, at most one
\* subscribe message is sent and at most one receive task is started, and all
\* the calls that return a connection return the same one.
C1_OneUpstreamPerInstrument ==
    \A t \in Tickers :
      /\ Cardinality(OpenedFor(t)) <= 1
      /\ Cardinality({ c \in OpenedFor(t) : upstream[c].subscribed }) <= 1
      /\ Cardinality({ c \in OpenedFor(t) : upstream[c].task_started }) <= 1
      /\ \A s1, s2 \in Sessions :
            ( /\ session[s1].ticker = t /\ session[s2].ticker = t
              /\ session[s1].polygon_ws_client # NoConn
              /\ session[s2].polygon_ws_client # NoConn )
            => session[s1].polygon_ws_client = session[s2].polygon_ws_client

\* C2: of two consecutive iterations of one session whose fingerprints are
\* equal, at most one sends a frame; and the iteration that first sees the
\* market closed after an iteration that saw it open sends a frame.
C2_NoRepeatedFrame ==
    [][ \A s \in Sessions :
          ( session[s].ticks >= 1 /\ session'[s].ticks = session[s].ticks + 1 )
          => /\ ( session'[s].current_hash = session[s].current_hash
                   => ~(session[s].tick_emitted /\ session'[s].tick_emitted) )
             /\ ( (session[s].market_open /\ ~session'[s].market_open)
                   => session'[s].tick_emitted ) ]_vars

\* C2 witness: the second iteration of a session had the fingerprint of the
\* frame the first one sent, and sent nothing
C2_Witness ==
    \E s \in Sessions :
      /\ session[s].pc = "sleep" /\ session[s].ticks >= 2
      /\ ~session[s].tick_emitted
      /\ session[s].current_hash = session[s].last_data_hash
      /\ DataFramesOf(s) # {}

\* C6: a session that found the market closed at connect never calls
\* start_polygon_websocket, holds no upstream connection, and serves every
\* iteration from the REST provider.
C6_ClosedMarketSkipsAcquire ==
    \A s \in Sessions :
      session[s].connect_market = "false"
      => /\ session[s].acquire_calls = 0
         /\ session[s].polygon_ws_client = NoConn
         /\ session[s].connection_status # "connected"
         /\ session[s].pc \notin {"acq_connect", "acq_auth_send", "acq_auth_recv",
                                  "acq_sub_send", "send_connected", "send_failed",
                                  "send_conn_error"}
         /\ ( session[s].pc \in LoopPcs => session[s].connection_status = "failed" )
         /\ \A i \in DataFramesOf(s) :
               session[s].frames[i].data_source = "polygon_rest"

\* C6 witness: such a session delivered a data frame
C6_Witness ==
    \E s \in Sessions :
      /\ session[s].connect_market = "false"
      /\ session[s].ticks >= 1
      /\ DataFramesOf(s) # {}

\* C7, as claimed: the first frame of a session that found the market closed
\* at connect has status "market_closed".
C7_FirstFrameMarketClosed ==
    \A s \in Sessions :
      ( session[s].connect_market = "false" /\ Len(session[s].frames) >= 1 )
      => session[s].frames[1].status = "market_closed"

\* C7, amended: the first frame of a session that found the market closed at
\* connect is the "connecting" frame, and the frame after it, the first one
\* sent after the market check, has status "market_closed".
C7_SecondFrameMarketClosed ==
    \A s \in Sessions :
      session[s].connect_market = "false"
      => /\ Len(session[s].frames) >= 1
         /\ session[s].frames[1].status = "connecting"
         /\ ( Len(session[s].frames) >= 2
               => session[s].frames[2].status = "market_closed" )

\* C7 witness: the market-closed frame was delivered
C7_Witness ==
    \E s \in Sessions :
      /\ session[s].connect_market = "false"
      /\ Len(session[s].frames) >= 2

\* C8: a session that found the market open at connect is in the loop in Push
\* mode exactly when start_polygon_websocket returned a connection; when it
\* returned none or raised, the failure frame is followed by the loop in
\* Fallback mode, the client connection not being closed.
C8_PushIffAcquired ==
    \A s \in Sessions :
      session[s].connect_market = "true"
      => /\ ( session[s].pc \in LoopPcs
               => /\ session[s].connection_status \in {"connected", "failed"}
                  /\ ( session[s].connection_status = "connected"
                        <=> session[s].polygon_ws_client # NoConn )
                  /\ ~session[s].close_called )
         /\ ( Len(session[s].frames) >= 2
               => /\ session[s].ticks >= 1
                  /\ ( session[s].frames[2].status = "connected"
                        <=> session[s].polygon_ws_client # NoConn )
                  /\ \A i \in DataFramesOf(s) :
                        session[s].frames[i].data_source =
                          ( IF session[s].polygon_ws_client # NoConn
                            THEN "polygon_websocket" ELSE "polygon_rest" ) )

\* C8 witness: start_polygon_websocket returned None and the session serves
\* from the REST provider
C8_Witness ==
    \E s \in Sessions :
      /\ session[s].connect_market = "true"
      /\ session[s].acquire_calls = 1
      /\ session[s].polygon_ws_client = NoConn
      /\ session[s].pc = "sleep"
      /\ session[s].frames[2].status = "connection_failed"
      /\ DataFramesOf(s) # {}

\* C8 witness of the other direction: a session in Push mode
C8_WitnessPush ==
    \E s \in Sessions :
      /\ session[s].pc = "sleep"
      /\ session[s].connection_status = "connected"
      /\ DataFramesOf(s) # {}

\* C9: no step of a session changes websocket_data.
C9_SessionsDoNotWriteCache ==
    [][ (\E s \in Sessions : session'[s] # session[s])
        => websocket_data' = websocket_data ]_vars

\* C10: the step that ends a session holding a connection releases it, that
\* is, changes the state of the multiplexer (its registry or its connections).
C10_ReleaseOnEnd ==
    [][ \A s \in Sessions :
          ( /\ session[s].pc # "closed" /\ session'[s].pc = "closed"
            /\ session[s].polygon_ws_client # NoConn )
          => << websocket_connections, upstream >>'
               # << websocket_connections, upstream >> ]_vars

\* the awaits inside start_polygon_websocket
AcquirePcs == {"acq_connect", "acq_auth_send", "acq_auth_recv", "acq_sub_send"}

\* the live sessions that hold a connection for ticker t
Subscribers(t) ==
    { s \in Sessions : /\ session[s].pc \notin {"idle", "closed"}
                       /\ session[s].ticker = t
                       /\ session[s].polygon_ws_client # NoConn }

\* C11: a registered connection or a cached state exists for an instrument
\* exactly when at least one live session is subscribed to it.
C11_FeedExistsIffSubscribed ==
    \A t \in Tickers :
      ( websocket_connections[t] # NoConn \/ websocket_data[t] # NoEntry )
        <=> Subscribers(t) # {}

\* C12: the data frames of a session carry data_count 0, 1, 2, ... in the
\* order sent, and inside the loop the counter equals the number of data
\* frames delivered.
C12_CountsInOrder ==
    \A s \in Sessions :
      /\ \A i \in DataFramesOf(s) :
            session[s].frames[i].data_count =
              Cardinality({ j \in DataFramesOf(s) : j < i })
      /\ ( session[s].pc \in LoopPcs
            => session[s].data_count = Cardinality(DataFramesOf(s)) )

\* C12 witness: a session delivered two data frames
C12_Witness ==
    \E s \in Sessions :
      /\ session[s].pc = "sleep"
      /\ Cardinality(DataFramesOf(s)) >= 2

\* C13: a session calls start_polygon_websocket at most once; once its loop
\* has started it neither calls it nor is inside it again.
C13_AcquireOnceBeforeLoop ==
    [][ \A s \in Sessions :
          /\ session'[s].acquire_calls <= 1
          /\ ( session[s].ticks >= 1
                => /\ session'[s].acquire_calls = session[s].acquire_calls
                   /\ session'[s].pc \notin AcquirePcs ) ]_vars

\* C13 witness: start_polygon_websocket returned None, and a later iteration
\* saw the market open
C13_Witness ==
    \E s \in Sessions :
      /\ session[s].acquire_calls = 1
      /\ session[s].polygon_ws_client = NoConn
      /\ session[s].connection_status = "failed"
      /\ session[s].pc = "sleep"
      /\ session[s].ticks >= 2
      /\ session[s].market_open

\* C14: a session in which an exception other than a disconnect was raised
\* ends having delivered exactly one error frame, as its last frame, and
\* closed the connection, the exception not leaving the handler.
C14_ErrorFrameThenClose ==
    \A s \in Sessions :
      session[s].outcome \in {"error_closed", "propagated"}
      => /\ session[s].outcome = "error_closed"
         /\ session[s].close_called
         /\ Len(session[s].frames) >= 1
         /\ session[s].frames[Len(session[s].frames)].status = "error"
         /\ Cardinality({ i \in DOMAIN session[s].frames :
                            session[s].frames[i].status = "error" }) = 1

\* mode, last emitted fingerprint and emitted count of a session record
Progress(r) == << r.connection_status, r.last_data_hash, r.data_count >>

\* C15: the step that ends a session leaves the other sessions' mode, last
\* fingerprint and count, and the cache and connection of the other
\* instruments as they were; the step in which the receive task of a connection
\* ends leaves every session, and the cache and connections of the other
\* instruments, as they were.
C15_FailuresAreIsolated ==
    [][ /\ \A s \in Sessions :
             ( session[s].pc # "closed" /\ session'[s].pc = "closed" )
             => /\ \A s2 \in Sessions \ {s} :
                      Progress(session'[s2]) = Progress(session[s2])
                /\ \A t \in Tickers \ {session[s].ticker} :
                      /\ websocket_data'[t] = websocket_data[t]
                      /\ websocket_connections'[t] = websocket_connections[t]
        /\ \A c \in DOMAIN upstream :
             ( upstream[c].listening /\ ~upstream'[c].listening )
             => /\ \A s \in Sessions : Progress(session'[s]) = Progress(session[s])
                /\ \A t \in Tickers \ {upstream[c].ticker} :
                      /\ websocket_data'[t] = websocket_data[t]
                      /\ websocket_connections'[t] = websocket_connections[t]
                /\ \A c2 \in DOMAIN upstream :
                      upstream[c2].ticker # upstream[c].ticker
                      => upstream'[c2] = upstream[c2] ]_vars

\* C15 witness: a session is over and the receive task of a connection has
\* ended, while a session for another instrument streams in Push mode
C15_Witness ==
    \E c \in DOMAIN upstream, s, s2 \in Sessions :
      /\ upstream[c].task_started /\ ~upstream[c].listening
      /\ session[s].pc = "closed"
      /\ session[s2].ticker # upstream[c].ticker
      /\ session[s2].ticker # session[s].ticker
      /\ session[s2].pc = "sleep"
      /\ session[s2].connection_status = "connected"
      /\ session[s2].data_count >= 1

\* C16: a call of start_polygon_websocket whose auth message was answered by
\* a rejection does not put its session in Push mode.
C16_AuthRejectedFallsBack ==
    [][ \A s \in Sessions :
          ( session[s].pc = "acq_sub_send"
            /\ session[s].auth_response = "auth_failed" )
          => session'[s].connection_status # "connected" ]_vars

\* the fields of a recurring data frame
FrameFields ==
    {"ticker", "timestamp", "type", "connection_status", "data_source",
     "market_open", "message", "data_count"}

\* C30: every data frame delivered has the keys ticker, timestamp, type,
\* connection_status, data_source, market_open, message and data_count.
C30_DataFramesHaveAllFields ==
    \A s \in Sessions :
      \A i \in DataFramesOf(s) : FrameFields \subseteq session[s].frames[i].keys

\* C33: an iteration sends a data frame exactly when it is the first of the
\* session, or its fingerprint differs from the one of the last frame sent, or
\* it sees the market closed and the closed-notice flag is down; and between
\* iterations the flag is up exactly when the last iteration saw the market
\* closed.
C33_EmitsIffRule ==
    \A s \in Sessions :
      LET r == session[s] IN
      /\ ( r.pc = "send_data"
            => /\ r.tick_emitted
               /\ ( \/ r.ticks = 1
                    \/ r.current_hash # r.last_data_hash
                    \/ (~r.market_open /\ ~r.market_status_sent) ) )
      /\ ( (r.pc = "sleep" /\ ~r.tick_emitted)
            => /\ r.ticks > 1
               /\ r.current_hash = r.last_data_hash
               /\ (r.market_open \/ r.market_status_sent) )
      /\ ( (r.pc \in LoopPcs /\ r.ticks = 1) => r.tick_emitted )
      /\ ( r.pc = "send_data" => (r.ticks = 1 <=> r.last_data_hash = NoHash) )
      /\ ( r.pc = "sleep" => (r.market_status_sent <=> ~r.market_open) )

\* C33 witness: an iteration after the first one saw the fingerprint of the
\* last frame sent, with the market closed and the flag up, and sent nothing
C33_Witness ==
    \E s \in Sessions :
      /\ session[s].pc = "sleep" /\ session[s].ticks >= 2
      /\ ~session[s].tick_emitted
      /\ ~session[s].market_open /\ session[s].market_status_sent

\* C33 witness of the other direction: an iteration after the first one sends
\* a frame, its fingerprint being new
C33_WitnessSends ==
    \E s \in Sessions :
      /\ session[s].pc = "send_data" /\ session[s].ticks >= 2
      /\ session[s].current_hash # session[s].last_data_hash

\* C35: a data frame about to be sent is the first of its session or has a
\* fingerprint other than the one of the last frame sent.
C35_NoLoneClosedNotice ==
    \A s \in Sessions :
      ( session[s].pc = "send_data" /\ session[s].last_data_hash # NoHash )
      => session[s].current_hash # session[s].last_data_hash

\* C35 witness: the second frame of a session is about to be sent, the
\* market being closed and the closed-notice flag down
C35_Witness ==
    \E s \in Sessions :
      /\ session[s].pc = "send_data"
      /\ session[s].last_data_hash # NoHash
      /\ ~session[s].market_open /\ ~session[s].market_status_sent

\* the upstream connections no call of start_polygon_websocket is working on
Settled ==
    { c \in DOMAIN upstream : \A s \in Sessions : session[s].ws # c }

\* C37: the connection registered for an instrument has a running receive
\* task.
C37_RegisteredIsListening ==
    \A t \in Tickers :
      websocket_connections[t] # NoConn
      => upstream[websocket_connections[t]].listening

\* C38: a connection opened by a call of start_polygon_websocket that has
\* returned None has been closed; such a call starts no receive task and
\* registers nothing.
C38_FailedAcquireLeavesNothing ==
    \A c \in Settled :
      ~upstream[c].task_started
      => /\ upstream[c].close_called
         /\ ~upstream[c].listening
         /\ \A t \in Tickers : websocket_connections[t] # c

LiveIdle ==
    /\ websocketsInstalled = TRUE
    /\ upstream = << >>
    /\ websocket_connections = [t \in Tickers |-> NoConn]
    /\ websocket_data = [t \in Tickers |-> NoEntry]
    /\ session = [s \in Sessions |-> NewSession]

----------------------------------------------------------------------------
\* Historical path: the granularity planner (helpers.py:118-199)

MAX_CANDLE_LIMIT == 300
TradingMinutesPerDay == 390
TradingDaysPerWeek == 5
TradingDaysPerMonth == 21
TradingDaysPerYear == 252

Max(a, b) == IF a >= b THEN a ELSE b

\* the units of a timeframe spec
Units == {"minute", "hour", "day", "week", "month", "year"}

\* trading minutes of one `u`: the two if-chains of calculate_expected_candles
\* (helpers.py:126-139 and 142-155), which default to days
MinutesPer(u) ==
    CASE u = "minute" -> 1
      [] u = "hour" -> 60
      [] u = "day" -> TradingMinutesPerDay
      [] u = "week" -> TradingDaysPerWeek * TradingMinutesPerDay
      [] u = "month" -> TradingDaysPerMonth * TradingMinutesPerDay
      [] u = "year" -> TradingDaysPerYear * TradingMinutesPerDay
      [] OTHER -> TradingMinutesPerDay

\* calculate_expected_candles (helpers.py:118-157); int() of the quotient of
\* two positive numbers is their integer quotient
CalculateExpectedCandles(original_quantity, original_unit, target_mult, target_unit) ==
    LET total_minutes == original_quantity * MinutesPer(original_unit)
        target_minutes_per_candle == target_mult * MinutesPer(target_unit)
    IN Max(1, total_minutes \div target_minutes_per_candle)

\* TotalDays counting trading days
TotalDays_Trading(q, u) ==
    CASE u = "minute" -> Max(1, q \div 1440)
      [] u = "hour" -> Max(1, q \div 24)
      [] u = "day" -> q
      [] u = "week" -> q * TradingDaysPerWeek
      [] u = "month" -> q * TradingDaysPerMonth
      [] u = "year" -> q * TradingDaysPerYear
      [] OTHER -> q * TradingDaysPerMonth

\* total_days of resolve_lookback_window (helpers.py:163-177)
TotalDays(q, u) ==
    CASE u = "minute" -> Max(1, q \div 1440)
      [] u = "hour" -> Max(1, q \div 24)
      [] u = "day" -> q
      [] u = "week" -> q * 7
      [] u = "month" -> q * 30
      [] u = "year" -> q * 365
      [] OTHER -> q * 30

\* the candidate table of helpers.py:180-186, as (unit, mult)
Candidates ==
    << << "minute", 5 >>, << "minute", 15 >>, << "minute", 30 >>,
       << "hour", 1 >>, << "hour", 4 >>,
       << "day", 1 >>, << "day", 2 >>, << "day", 3 >>, << "day", 5 >>,
       << "week", 1 >>, << "week", 2 >>,
       << "month", 1 >>, << "month", 3 >> >>

\* Coarsest with monthly candles
Coarsest_OneMonth == << "month", 1 >>

\* the last resort of helpers.py:197, as (unit, mult)
Coarsest == << "month", 6 >>

\* Qualifying passing the requested unit where helpers.py:190 passes unit_final
Qualifying_WrongUnit(q, u) ==
    { i \in DOMAIN Candidates :
        CalculateExpectedCandles(q, u, Candidates[i][2], u) <= MAX_CANDLE_LIMIT }

\* the candidates, by index, that keep (q, u) under the limit (helpers.py:190-191)
Qualifying(q, u) ==
    { i \in DOMAIN Candidates :
        CalculateExpectedCandles(q, u, Candidates[i][2], Candidates[i][1])
          <= MAX_CANDLE_LIMIT }

\* Chosen testing the last resort against the ceiling and giving it up for
\* yearly candles
Chosen_Rechecked(q, u) ==
    LET ok == Qualifying(q, u) IN
    IF ok # {} THEN Candidates[CHOOSE i \in ok : \A j \in ok : i <= j]
    ELSE IF CalculateExpectedCandles(q, u, Coarsest[2], Coarsest[1]) <= MAX_CANDLE_LIMIT
         THEN Coarsest ELSE << "year", 1 >>

\* Chosen with a loop that does not return at the first hit
Chosen_LastHit(q, u) ==
    LET ok == Qualifying(q, u) IN
    IF ok = {} THEN Coarsest
    ELSE Candidates[CHOOSE i \in ok : \A j \in ok : i >= j]

\* the (unit, mult) the loop of helpers.py:189-197 ends with
Chosen(q, u) ==
    LET ok == Qualifying(q, u) IN
    IF ok = {} THEN Coarsest
    ELSE Candidates[CHOOSE i \in ok : \A j \in ok : i <= j]

\* date arithmetic of the standard library, on proleptic Gregorian ordinals
\* (date.toordinal): isoformat() is taken to be injective on dates
IsLeap(y) == (y % 4 = 0 /\ y % 100 # 0) \/ y % 400 = 0
DaysBeforeYear(y) ==
    LET p == y - 1 IN p * 365 + (p \div 4) - (p \div 100) + (p \div 400)
ToOrdinal(d) == DaysBeforeYear(d.year) + d.doy

\* now - timedelta(days=n), for n that stay in the range of dates
DaysBefore(now, n) == ToOrdinal(now) - n

\* ResolveLookbackWindow choosing daily candles for "day", as the variant of
\* helper_functions.py does
ResolveLookbackWindow_Daily(q, u) ==
    LET c == IF u = "day" THEN << "day", 1 >> ELSE Chosen(q, u) IN
    [mult |-> c[2], unit |-> c[1], days_back |-> TotalDays(q, u),
     start |-> DaysBefore(today, TotalDays(q, u)), end |-> ToOrdinal(today)]

\* resolve_lookback_window (helpers.py:160-199), called on the day `today`;
\* days_back is total_days
ResolveLookbackWindow(q, u) ==
    LET c == Chosen(q, u) IN
    [mult |-> c[2], unit |-> c[1], days_back |-> TotalDays(q, u),
     start |-> DaysBefore(today, TotalDays(q, u)), end |-> ToOrdinal(today)]

\* the granularity the variant of helper_functions.py fixes per unit
\* (helper_functions.py:58-78), as (unit, mult)
FixedGranularity(u) ==
    CASE u = "minute" -> << "minute", 15 >>
      [] u = "hour" -> << "minute", 30 >>
      [] u = "day" -> << "day", 1 >>
      [] u = "week" -> << "day", 1 >>
      [] u = "month" -> << "week", 1 >>
      [] u = "year" -> << "month", 1 >>
      [] OTHER -> << "month", 1 >>

\* resolve_lookback_window of helper_functions.py:49-84, whose total_days are
\* those of helpers.py
ResolveLookbackWindowFixed(q, u) ==
    LET c == FixedGranularity(u) IN
    [mult |-> c[2], unit |-> c[1], days_back |-> TotalDays(q, u),
     start |-> DaysBefore(today, TotalDays(q, u)), end |-> ToOrdinal(today)]

\* the days on which the planner is called: the last day of a leap year and
\* the first of the next
PlanDays == { [year |-> 2024, doy |-> 366], NewYear2025 }

\* the quantities requested of unit u: the small ones, and large ones that
\* reach past every candidate of the table
Quantities(u) ==
    (1 .. MaxQuantity)
      \cup { k * ((StepMinutes \div MinutesPer(u)) + 1) : k \in 1 .. MaxQuantity }

PlanInit ==
    /\ LiveIdle
    /\ SvcIdle
    /\ today \in PlanDays
    /\ timeframe = << >>
    /\ parsed = NotParsed
    /\ config = NoConfig
    /\ again = NotAgain
    /\ body = NoBody
    /\ plan_fixed = NotPlanned
    /\ hpc = "plan"
    /\ unit \in Units
    /\ quantity \in Quantities(unit)
    /\ plan = NotPlanned
    /\ response = << >>
    /\ fetch_unit = "day"
    /\ fetch_raises = FALSE
    /\ fetched = NotFetched

\* one call of resolve_lookback_window
Resolve ==
    /\ hpc = "plan"
    /\ plan' = ResolveLookbackWindow(quantity, unit)
    /\ plan_fixed' = ResolveLookbackWindowFixed(quantity, unit)
    /\ hpc' = "planned"
    /\ UNCHANGED << quantity, unit, response, fetch_unit, fetch_raises, fetched,
                    tfVars, liveVars, svcVars >>

SpecPlan == PlanInit /\ [][Resolve]_vars

\* expected candle count of (quantity, unit) at candidate (unit, mult) c
ExpectedAt(c) == CalculateExpectedCandles(quantity, unit, c[2], c[1])

\* trading minutes of one candle of candidate (unit, mult) c
CandleMinutes(c) == c[2] * MinutesPer(c[1])

\* the candidates of the table under the limit for (quantity, unit)
UnderLimit == { i \in DOMAIN Candidates : ExpectedAt(Candidates[i]) <= MAX_CANDLE_LIMIT }

\* C3: the granularity returned has an expected candle count of at most 300,
\* unless no candidate of the table has one and the coarsest fallback is
\* returned.
C3_PlanUnderCeiling ==
    hpc = "planned"
    => \/ ExpectedAt(<< plan.unit, plan.mult >>) <= MAX_CANDLE_LIMIT
       \/ ( UnderLimit = {} /\ << plan.unit, plan.mult >> = Coarsest )

\* C3 witness: a plan that meets the ceiling exactly
C3_Witness ==
    /\ hpc = "planned"
    /\ UnderLimit # {}
    /\ ExpectedAt(<< plan.unit, plan.mult >>) = MAX_CANDLE_LIMIT

\* C4: when a candidate is under the limit, the granularity returned is the
\* first such candidate of the table, and no candidate with shorter candles
\* is under the limit.
C4_FirstAndFinest ==
    ( hpc = "planned" /\ UnderLimit # {} )
    => /\ \E i \in UnderLimit :
            /\ << plan.unit, plan.mult >> = Candidates[i]
            /\ \A j \in UnderLimit : i <= j
       /\ \A j \in DOMAIN Candidates :
            CandleMinutes(Candidates[j]) < CandleMinutes(<< plan.unit, plan.mult >>)
            => ExpectedAt(Candidates[j]) > MAX_CANDLE_LIMIT

\* C4 witness: the plan is a candidate that finer candidates precede
C4_Witness ==
    /\ hpc = "planned"
    /\ UnderLimit # {}
    /\ plan.unit = "day" /\ plan.mult = 3
    /\ \E j \in DOMAIN Candidates :
         CandleMinutes(Candidates[j]) < CandleMinutes(<< plan.unit, plan.mult >>)

\* C25, as claimed: for 10 days the planner returns daily candles, with an
\* expected candle count of at most 300.
C25_TenDaysDaily ==
    ( hpc = "planned" /\ quantity = 10 /\ unit = "day" )
    => /\ plan.unit = "day" /\ plan.mult = 1
       /\ ExpectedAt(<< plan.unit, plan.mult >>) <= MAX_CANDLE_LIMIT

\* C25, amended: for 10 days the planner of helpers.py returns 15-minute
\* candles, with an expected candle count of 260; the variant of
\* helper_functions.py returns daily candles.
C25_TenDaysQuarterHour ==
    ( hpc = "planned" /\ quantity = 10 /\ unit = "day" )
    => /\ plan.unit = "minute" /\ plan.mult = 15
       /\ ExpectedAt(<< plan.unit, plan.mult >>) = 260
       /\ ExpectedAt(<< plan.unit, plan.mult >>) <= MAX_CANDLE_LIMIT
       /\ plan_fixed.unit = "day" /\ plan_fixed.mult = 1

\* C25 witness: the planner was called for 10 days
C25_Witness ==
    /\ hpc = "planned"
    /\ quantity = 10 /\ unit = "day"
    /\ plan.mult > 0

\* C27: when no candidate of the table is under the limit, the plan is 6-month
\* candles, which are longer than the candles of every candidate, whatever
\* their own expected count.
C27_FallbackIsCoarsest ==
    ( hpc = "planned" /\ UnderLimit = {} )
    => /\ plan.unit = "month" /\ plan.mult = 6
       /\ \A i \in DOMAIN Candidates :
             CandleMinutes(Candidates[i]) < CandleMinutes(<< plan.unit, plan.mult >>)

\* C27 witness: the fallback was returned with an expected count over the limit
C27_Witness ==
    /\ hpc = "planned"
    /\ UnderLimit = {}
    /\ plan.unit = "month" /\ plan.mult = 6
    /\ ExpectedAt(<< "month", 6 >>) > MAX_CANDLE_LIMIT

\* C28: the plan ends today and starts the total-days estimate of the
\* requested (quantity, unit) before today, whichever granularity it has.
C28_DatesFromTotalDays ==
    hpc = "planned"
    => /\ plan.end = ToOrdinal(today)
       /\ plan.end - plan.start =
            ( CASE unit = "minute" -> Max(1, quantity \div 1440)
                [] unit = "hour" -> Max(1, quantity \div 24)
                [] unit = "day" -> quantity
                [] unit = "week" -> 7 * quantity
                [] unit = "month" -> 30 * quantity
                [] unit = "year" -> 365 * quantity )

\* C28 witness: a request in weeks answered with the fallback, and one
\* answered with a candidate of the table
C28_Witness ==
    /\ hpc = "planned"
    /\ unit = "week"
    /\ plan.start < plan.end
    /\ plan.unit \in {"month", "day"}


----------------------------------------------------------------------------
\* Historical path: the aggregate fetcher (helpers.py:202-239)

ALLOWED_UNITS == {"minute", "hour", "day", "week", "month", "quarter", "year"}

\* the units a caller may pass, one of them unknown to the provider
FetchUnits == {"minute", "day", "fortnight"}

\* what list_aggs can yield: n candles in ascending order of timestamp, or
\* with a repeated timestamp, or in descending order
Shapes == {"asc", "dup", "desc"}

Candle(i, n, shape) ==
    [timestamp |-> CASE shape = "asc" -> i
                     [] shape = "dup" -> (i + 1) \div 2
                     [] OTHER -> n + 1 - i]

Aggs(n, shape) == [i \in 1 .. n |-> Candle(i, n, shape)]

\* Truncate without the safety check
Truncate_None(aggs) == aggs

\* helpers.py:228-230
Truncate(aggs) ==
    IF Len(aggs) > MAX_CANDLE_LIMIT THEN SubSeq(aggs, 1, MAX_CANDLE_LIMIT) ELSE aggs

\* Warns never printing
Warns_Never(aggs) == FALSE

\* whether the warning of helpers.py:233-234 is printed
Warns(aggs) == Len(aggs) = MAX_CANDLE_LIMIT

\* GetPolygonAggregates without the test of helpers.py:203
GetPolygonAggregates_NoUnitCheck(u, resp, raises) ==
    IF raises
    THEN [kind |-> "error", error |-> "Polygon API error", details |-> "exception",
          aggs |-> << >>, truncated |-> FALSE, warned |-> FALSE, calls |-> 1]
    ELSE [kind |-> "list", error |-> "none", details |-> "none",
          aggs |-> Truncate(resp), truncated |-> FALSE,
          warned |-> Warns(Truncate(resp)), calls |-> 1]

\* get_polygon_aggregates (helpers.py:202-239), given what list_aggs does:
\* raise, or yield the candles resp. The value returned is the dict of
\* helpers.py:204 or helpers.py:237 (error, details: the unit, or str(e)), or
\* the bare list of candles (helpers.py:239), which has no place for a
\* truncation mark (truncated); warned is the print of helpers.py:234 and
\* calls the number of calls of list_aggs.
GetPolygonAggregates(u, resp, raises) ==
    IF u \notin ALLOWED_UNITS
    THEN [kind |-> "error", error |-> "Invalid unit", details |-> "unit",
          aggs |-> << >>, truncated |-> FALSE, warned |-> FALSE, calls |-> 0]
    ELSE IF raises
         THEN [kind |-> "error", error |-> "Polygon API error", details |-> "exception",
               aggs |-> << >>, truncated |-> FALSE, warned |-> FALSE, calls |-> 1]
         ELSE [kind |-> "list", error |-> "none", details |-> "none",
               aggs |-> Truncate(resp), truncated |-> FALSE,
               warned |-> Warns(Truncate(resp)), calls |-> 1]

FetchInit ==
    /\ LiveIdle
    /\ SvcIdle
    /\ TfIdle
    /\ plan_fixed = NotPlanned
    /\ hpc = "fetch"
    /\ quantity = 1
    /\ unit = "day"
    /\ plan = NotPlanned
    /\ \E n \in 0 .. (MAX_CANDLE_LIMIT + MaxExcess), sh \in Shapes : response = Aggs(n, sh)
    /\ fetch_unit \in FetchUnits
    /\ fetch_raises \in BOOLEAN
    /\ fetched = NotFetched

\* one call of get_polygon_aggregates
Fetch ==
    /\ hpc = "fetch"
    /\ fetched' = GetPolygonAggregates(fetch_unit, response, fetch_raises)
    /\ hpc' = "fetched"
    /\ UNCHANGED << quantity, unit, plan, plan_fixed, response, fetch_unit,
                    fetch_raises, tfVars, liveVars, svcVars >>

SpecFetch == FetchInit /\ [][Fetch]_vars

Min(a, b) == IF a <= b THEN a ELSE b

\* C5: a call that yields candles yields the first min(L, 300) of the L
\* candles of the upstream response, hence never more than 300.
C5_AtMostCeiling ==
    hpc = "fetched"
    => /\ ( (fetch_unit \in ALLOWED_UNITS /\ ~fetch_raises) => fetched.kind = "list" )
       /\ ( fetched.kind = "list"
             => /\ Len(fetched.aggs) <= MAX_CANDLE_LIMIT
                /\ Len(fetched.aggs) = Min(Len(response), MAX_CANDLE_LIMIT)
                /\ \A i \in 1 .. Len(fetched.aggs) : fetched.aggs[i] = response[i] )

\* C5 witness: the upstream answered with more than 300 candles
C5_Witness ==
    /\ hpc = "fetched"
    /\ fetched.kind = "list"
    /\ Len(response) > MAX_CANDLE_LIMIT
    /\ Len(fetched.aggs) = MAX_CANDLE_LIMIT

\* the unit is allowed and list_aggs does not raise
Answered == hpc = "fetched" /\ fetch_unit \in ALLOWED_UNITS /\ ~fetch_raises

\* C17: a call in which list_aggs raises, or yields no candle, returns an
\* error value with the details of the failure, not a candle list.
C17_FailuresAreErrors ==
    ( /\ hpc = "fetched"
      /\ fetch_unit \in ALLOWED_UNITS
      /\ (fetch_raises \/ Len(response) = 0) )
    => /\ fetched.kind = "error"
       /\ fetched.details # "none"

\* C18: for a unit outside ALLOWED_UNITS the call returns the invalid-unit
\* error and list_aggs is not called.
C18_InvalidUnitNoCall ==
    ( hpc = "fetched" /\ fetch_unit \notin ALLOWED_UNITS )
    => /\ fetched.kind = "error"
       /\ fetched.error = "Invalid unit"
       /\ fetched.calls = 0

\* C18 witness: a call with the unit "fortnight" returned
C18_Witness ==
    /\ hpc = "fetched"
    /\ fetch_unit = "fortnight"
    /\ fetched.kind = "error"

\* C19, as claimed: when list_aggs yields exactly 300 candles, all of them
\* are returned, as a list, and the value returned carries a truncation mark.
C19_CarriesIndicator ==
    ( Answered /\ Len(response) = MAX_CANDLE_LIMIT )
    => /\ fetched.kind = "list"
       /\ fetched.aggs = response
       /\ fetched.truncated

\* C19, amended: when list_aggs yields exactly 300 candles, all of them are
\* returned, as a list that carries no truncation mark, and the warning is
\* printed.
C19_ReturnsAllAndWarns ==
    ( Answered /\ Len(response) = MAX_CANDLE_LIMIT )
    => /\ fetched.kind = "list"
       /\ fetched.aggs = response
       /\ Len(fetched.aggs) = MAX_CANDLE_LIMIT
       /\ fetched.warned
       /\ ~fetched.truncated

\* C19 witness: list_aggs yielded exactly 300 candles
C19_Witness ==
    /\ Answered
    /\ Len(response) = MAX_CANDLE_LIMIT
    /\ Len(fetched.aggs) = MAX_CANDLE_LIMIT

\* C20: a candle list returned is strictly ascending by timestamp.
C20_StrictlyAscending ==
    ( hpc = "fetched" /\ fetched.kind = "list" )
    => \A i \in 1 .. (Len(fetched.aggs) - 1) :
          fetched.aggs[i].timestamp < fetched.aggs[i + 1].timestamp

----------------------------------------------------------------------------
\* Timeframe resolution: parse_timeframe (helper_functions.py:25-46),
\* get_timeframe_config (helpers.py:45-115) and the handler
\* fetch_historical_data (main.py:32-62). A text is the sequence of its
\* characters.

DigitChars == << "0", "1", "2", "3", "4", "5", "6", "7", "8", "9" >>
LowerCase ==
    << "a", "b", "c", "d", "e", "f", "g", "h", "i", "j", "k", "l", "m",
       "n", "o", "p", "q", "r", "s", "t", "u", "v", "w", "x", "y", "z" >>
UpperCase ==
    << "A", "B", "C", "D", "E", "F", "G", "H", "I", "J", "K", "L", "M",
       "N", "O", "P", "Q", "R", "S", "T", "U", "V", "W", "X", "Y", "Z" >>

\* the characters \d and \s match, and strip() removes, among those of the texts
Digits == { DigitChars[i] : i \in DOMAIN DigitChars }
Spaces == { " ", "\t" }

\* str.lower() and str.upper()
Lower(t) ==
    [ i \in DOMAIN t |->
        IF \E k \in DOMAIN UpperCase : UpperCase[k] = t[i]
        THEN LowerCase[CHOOSE k \in DOMAIN UpperCase : UpperCase[k] = t[i]]
        ELSE t[i] ]
Upper(t) ==
    [ i \in DOMAIN t |->
        IF \E k \in DOMAIN LowerCase : LowerCase[k] = t[i]
        THEN UpperCase[CHOOSE k \in DOMAIN LowerCase : LowerCase[k] = t[i]]
        ELSE t[i] ]

\* Strip removing the leading whitespace only
Strip_Left(t) ==
    LET ink == { i \in DOMAIN t : t[i] \notin Spaces } IN
    IF ink = {} THEN << >>
    ELSE SubSeq(t, CHOOSE i \in ink : \A j \in ink : i <= j, Len(t))

\* str.strip()
Strip(t) ==
    LET ink == { i \in DOMAIN t : t[i] \notin Spaces } IN
    IF ink = {} THEN << >>
    ELSE SubSeq(t, CHOOSE i \in ink : \A j \in ink : i <= j,
                   CHOOSE i \in ink : \A j \in ink : i >= j)

\* the length of the longest prefix of t made of characters of S
Run(t, S) ==
    LET other == { i \in DOMAIN t : t[i] \notin S } IN
    IF other = {} THEN Len(t) ELSE (CHOOSE i \in other : \A j \in other : i <= j) - 1

Drop(t, n) == SubSeq(t, n + 1, Len(t))

IsPrefix(w, t) == Len(w) <= Len(t) /\ SubSeq(t, 1, Len(w)) = w

\* the alternatives of the pattern of helper_functions.py:26, in its order
UnitWords ==
    << << "m", "i", "n", "u", "t", "e" >>, << "m", "i", "n" >>,
       << "h", "o", "u", "r" >>, << "d", "a", "y" >>, << "w", "e", "e", "k" >>,
       << "m", "o", "n", "t", "h" >>, << "y", "e", "a", "r" >> >>

\* the unit of each alternative (helper_functions.py:33-41)
UnitOfWord == << "minute", "minute", "hour", "day", "week", "month", "year" >>

\* re.match(r"(\d+)\s*(minute|min|hour|day|week|month|year)s?", t): the match
\* starts at the first character and may end before the last; end is the
\* number of characters matched
Match(t) ==
    LET nd == Run(t, Digits)
        r1 == Drop(t, nd)
        ns == Run(r1, Spaces)
        r2 == Drop(r1, ns)
        hits == { k \in DOMAIN UnitWords : IsPrefix(UnitWords[k], r2) }
    IN IF nd = 0 \/ hits = {}
       THEN [ok |-> FALSE, digits |-> << >>, word |-> 0, end |-> 0]
       ELSE LET k == CHOOSE x \in hits : \A y \in hits : x <= y
                r3 == Drop(r2, Len(UnitWords[k]))
                plural == IF r3 # << >> /\ r3[1] = "s" THEN 1 ELSE 0
            IN [ok |-> TRUE, digits |-> SubSeq(t, 1, nd), word |-> k,
                end |-> nd + ns + Len(UnitWords[k]) + plural]

RECURSIVE IntOf(_)
\* int() of a sequence of digits
IntOf(ds) ==
    IF ds = << >> THEN 0
    ELSE 10 * IntOf(SubSeq(ds, 1, Len(ds) - 1))
           + ((CHOOSE k \in DOMAIN DigitChars : DigitChars[k] = ds[Len(ds)]) - 1)

\* parse_timeframe (helper_functions.py:25-46); every unit of the pattern is
\* in ALLOWED_UNITS, so the test of helper_functions.py:43 never raises
ParseTimeframe(tf) ==
    LET m == Match(Lower(Strip(tf))) IN
    IF ~m.ok THEN [kind |-> "ValueError", quantity |-> 0, unit |-> "none"]
    ELSE [kind |-> "ok", quantity |-> IntOf(m.digits), unit |-> UnitOfWord[m.word]]

\* the keys of configs (helpers.py:52-107), in its order
PresetNames ==
    << << "1", "D" >>, << "1", "W" >>, << "1", "M" >>, << "3", "M" >>,
       << "6", "M" >>, << "Y", "T", "D" >>, << "3", "Y" >>, << "5", "Y" >>,
       << "7", "Y" >> >>

\* mult and unit of each preset
PresetMult == << 15, 1, 4, 1, 1, 1, 1, 1, 1 >>
PresetUnit ==
    << "minute", "hour", "hour", "day", "day", "day", "week", "week", "month" >>

\* PresetDaysBack counting, for every preset, the days elapsed this year
PresetDaysBack_Elapsed(k, now) == now.doy - 1

\* days_back of preset k on the day now: for YTD (helpers.py:86) the days
\* since 1 January of the year of now
PresetDaysBack(k, now) ==
    CASE k = 1 -> 1
      [] k = 2 -> 7
      [] k = 3 -> 30
      [] k = 4 -> 90
      [] k = 5 -> 180
      [] k = 6 -> ToOrdinal(now) - ToOrdinal([year |-> now.year, doy |-> 1])
      [] k = 7 -> 365 * 3
      [] k = 8 -> 365 * 5
      [] k = 9 -> 365 * 7

\* get_timeframe_config (helpers.py:45-115), called on the day now
GetTimeframeConfig(timeframe_text, now) ==
    LET tf == Strip(Upper(timeframe_text))
        hits == { k \in DOMAIN PresetNames : PresetNames[k] = tf }
    IN IF hits = {}
       THEN [kind |-> "ValueError", mult |-> 0, unit |-> "none", days_back |-> 0,
             start |-> 0, end |-> 0]
       ELSE LET k == CHOOSE x \in hits : TRUE IN
            [kind |-> "ok", mult |-> PresetMult[k], unit |-> PresetUnit[k],
             days_back |-> PresetDaysBack(k, now),
             start |-> DaysBefore(now, PresetDaysBack(k, now)), end |-> ToOrdinal(now)]

\* FetchHistoricalData without its except clauses
FetchHistoricalData_NoExcept(timeframe_text, now, resp, raises) ==
    LET cfg == GetTimeframeConfig(timeframe_text, now) IN
    IF cfg.kind = "ValueError"
    THEN [kind |-> "raised", error |-> "none", details |-> "none", data_points |-> 0]
    ELSE LET data == GetPolygonAggregates(cfg.unit, resp, raises) IN
         IF data.kind = "error"
         THEN [kind |-> "error", error |-> data.error, details |-> data.details,
               data_points |-> 0]
         ELSE [kind |-> "success", error |-> "none", details |-> "none",
               data_points |-> Len(data.aggs)]

\* fetch_historical_data (main.py:32-62), called on the day now, list_aggs
\* raising or yielding resp: the ValueError of get_timeframe_config is
\* answered with the body of main.py:59-60, the error dict of
\* get_polygon_aggregates is returned as it is (main.py:44-45), and no other
\* statement of the try raises
FetchHistoricalData(timeframe_text, now, resp, raises) ==
    LET cfg == GetTimeframeConfig(timeframe_text, now) IN
    IF cfg.kind = "ValueError"
    THEN [kind |-> "error", error |-> "Invalid timeframe", details |-> "ValueError",
          data_points |-> 0]
    ELSE LET data == GetPolygonAggregates(cfg.unit, resp, raises) IN
         IF data.kind = "error"
         THEN [kind |-> "error", error |-> data.error, details |-> data.details,
               data_points |-> 0]
         ELSE [kind |-> "success", error |-> "none", details |-> "none",
               data_points |-> Len(data.aggs)]

\* the texts: optional whitespace, a number or none, optional whitespace, a
\* word or none, and an ending
Leads == { << >>, << " " >> }
Numbers ==
    { << >>, << "0" >>, << "1" >>, << "3" >>, << "5" >>, << "6" >>, << "7" >>,
      << "1", "0" >> }
Gaps == { << >>, << "\t" >> }
Words ==
    { << >>, << "d" >>, << "D" >>, << "W" >>, << "M" >>, << "m" >>, << "Y" >>,
      << "Y", "T", "D" >>, << "y", "t", "d" >>,
      << "m", "i", "n" >>, << "m", "i", "n", "u", "t", "e" >>,
      << "H", "o", "u", "r" >>, << "d", "a", "y" >>, << "D", "A", "Y" >>,
      << "w", "e", "e", "k" >>, << "m", "o", "n", "t", "h" >>,
      << "y", "e", "a", "r" >>, << "d", "e", "c", "a", "d", "e" >> }
Endings == { << >>, << "s" >>, << " " >>, << "x" >>, << "s", " ", "a", "g", "o" >> }

Texts ==
    { a \o n \o g \o w \o e :
        a \in Leads, n \in Numbers, g \in Gaps, w \in Words, e \in Endings }

\* the days of the calls: every day of a leap year for the texts that name a
\* preset, two days for the others
YearDays == { [year |-> 2024, doy |-> n] : n \in 1 .. 366 }
OtherDays == { [year |-> 2025, doy |-> 1], [year |-> 2025, doy |-> 365] }

\* what list_aggs does in a call of the handler: it raises, or yields a given
\* number of candles
HandlerResponses == { Aggs(n, "asc") : n \in {0, 1, MAX_CANDLE_LIMIT + 1} }

TfInit ==
    /\ LiveIdle
    /\ SvcIdle
    /\ hpc = "text"
    /\ timeframe \in Texts
    /\ today \in PlanDays \cup
                 ( IF GetTimeframeConfig(timeframe, NewYear2025).kind = "ok"
                   THEN YearDays ELSE {} )
    /\ parsed = NotParsed
    /\ config = NoConfig
    /\ again = NotAgain
    /\ body = NoBody
    /\ quantity = 1
    /\ unit = "day"
    /\ plan = NotPlanned
    /\ plan_fixed = NotPlanned
    /\ response = << >>
    /\ fetch_unit = "day"
    /\ fetch_raises = FALSE
    /\ fetched = NotFetched

\* one call of parse_timeframe and one of get_timeframe_config
ResolveTimeframe ==
    /\ hpc = "text"
    /\ parsed' = ParseTimeframe(timeframe)
    /\ config' = GetTimeframeConfig(timeframe, today)
    /\ hpc' = "resolved"
    /\ UNCHANGED << today, timeframe, again, body, quantity, unit, plan, plan_fixed,
                    response, fetch_unit, fetch_raises, fetched, liveVars, svcVars >>

\* the same two calls on the day d
ResolveAgain(d) ==
    /\ hpc = "resolved"
    /\ again' = [today |-> d, parsed |-> ParseTimeframe(timeframe),
                 config |-> GetTimeframeConfig(timeframe, d)]
    /\ hpc' = "again"
    /\ UNCHANGED << today, timeframe, parsed, config, body, quantity, unit, plan,
                    plan_fixed, response, fetch_unit, fetch_raises, fetched, liveVars, svcVars >>

\* one request GET /historical-data/{ticker}?timeframe=...
HandleHistorical(resp, raises) ==
    /\ hpc = "text"
    /\ response' = resp
    /\ fetch_raises' = raises
    /\ body' = FetchHistoricalData(timeframe, today, resp, raises)
    /\ hpc' = "handled"
    /\ UNCHANGED << today, timeframe, parsed, config, again, quantity, unit, plan,
                    plan_fixed, fetch_unit, fetched, liveVars, svcVars >>

TfNext ==
    \/ ResolveTimeframe
    \/ \E d \in OtherDays : ResolveAgain(d)
    \/ \E resp \in HandlerResponses, raises \in BOOLEAN : HandleHistorical(resp, raises)

SpecTimeframe == TfInit /\ [][TfNext]_vars

\* the text, whitespace around it and letter case apart, is exactly a number,
\* optional whitespace, a unit word and an optional s
WellFormed(t) ==
    LET m == Match(Lower(Strip(t))) IN m.ok /\ m.end = Len(Strip(t))

\* the text, whitespace around it and letter case apart, is a preset name
IsPresetText(t) == \E k \in DOMAIN PresetNames : Strip(Upper(t)) = PresetNames[k]

\* the text is 1D or 1d with whitespace around it
IsOneDay(t) ==
    \E i \in DOMAIN t :
      /\ i + 1 \in DOMAIN t
      /\ t[i] = "1" /\ t[i + 1] \in {"d", "D"}
      /\ \A k \in DOMAIN t \ {i, i + 1} : t[k] \in Spaces

\* C21: the handler answers every request with a success body or with a body
\* that has an error and its details; no exception leaves it.
C21_HandlerAlwaysAnswers ==
    hpc = "handled"
    => /\ body.kind \in {"success", "error"}
       /\ ( body.kind = "error" => body.error # "none" /\ body.details # "none" )

\* C21 witness: a text that is no preset was answered with the
\* invalid-timeframe body
C21_Witness ==
    /\ hpc = "handled"
    /\ ~IsPresetText(timeframe)
    /\ body.kind = "error"
    /\ body.error = "Invalid timeframe"

\* C22: a text that is neither a number followed by a unit word nor a preset
\* name is rejected by parse_timeframe and by get_timeframe_config.
C22_RejectsMalformed ==
    ( hpc = "resolved" /\ ~WellFormed(timeframe) /\ ~IsPresetText(timeframe) )
    => /\ parsed.kind = "ValueError"
       /\ config.kind = "ValueError"

\* C23: a spec returned by parse_timeframe has a quantity of at least 1 and a
\* unit among minute, hour, day, week, month, year.
C23_PositiveQuantity ==
    ( hpc = "resolved" /\ parsed.kind = "ok" )
    => /\ parsed.quantity >= 1
       /\ parsed.unit \in Units

\* C24, as claimed: the same text resolved on two days gives the same spec,
\* and for a preset the same multiplier, unit and days_back.
C24_SameResultAnyDay ==
    hpc = "again"
    => /\ again.parsed = parsed
       /\ again.config.kind = config.kind
       /\ again.config.mult = config.mult
       /\ again.config.unit = config.unit
       /\ again.config.days_back = config.days_back

\* C24, amended: the same text resolved on two days gives the same spec, and
\* for a preset the same multiplier and unit, and the same days_back except
\* for YTD, whose days_back is the number of days since 1 January of the day
\* of the call.
C24_SameResultButYtd ==
    hpc = "again"
    => /\ again.parsed = parsed
       /\ again.config.kind = config.kind
       /\ again.config.mult = config.mult
       /\ again.config.unit = config.unit
       /\ IF Strip(Upper(timeframe)) = << "Y", "T", "D" >>
          THEN /\ config.days_back = today.doy - 1
               /\ again.config.days_back = again.today.doy - 1
          ELSE again.config.days_back = config.days_back

\* C24 witness: YTD resolved on two days of different rank in their year
C24_Witness ==
    /\ hpc = "again"
    /\ config.kind = "ok" /\ again.config.kind = "ok"
    /\ config.unit = "day"
    /\ again.config.days_back # config.days_back

\* C26: the text 1D, in either letter case and with whitespace around it,
\* resolves to 15-minute candles over a window that ends today and starts
\* one day before.
C26_OneDayPreset ==
    ( hpc = "resolved" /\ IsOneDay(timeframe) )
    => /\ config.kind = "ok"
       /\ config.mult = 15 /\ config.unit = "minute"
       /\ config.end = ToOrdinal(today)
       /\ config.end - config.start = 1

\* C26 witness: 1d in lower case with whitespace around it was resolved
C26_Witness ==
    /\ hpc = "resolved"
    /\ IsOneDay(timeframe)
    /\ Len(timeframe) = 4
    /\ \E i \in DOMAIN timeframe : timeframe[i] = "d"
    /\ config.kind = "ok"

\* C29: the planner's estimate of the candle count of a preset, for a window
\* of days_back days at the preset's multiplier and unit, is at most 300.
C29_PresetsUnderCeiling ==
    ( hpc = "resolved" /\ config.kind = "ok" )
    => CalculateExpectedCandles(config.days_back, "day", config.mult, config.unit)
         <= MAX_CANDLE_LIMIT

----------------------------------------------------------------------------
\* The receive task, message by message (helpers.py:300-326)

\* the events of one message: at most MaxEvents
MaxEvents == 2

\* the prices and sizes the feed reports
ListenVals == {"tA", "tB"}

\* the events of the feed: trades and quotes, of any symbol
FeedEvents == [ev : {"T", "Q"}, sym : Tickers, v : ListenVals]

\* the messages of the feed: JSON arrays of one to MaxEvents events
FeedMessages == UNION { [1 .. n -> FeedEvents] : n \in 1 .. MaxEvents }

RECURSIVE OnMessage(_, _, _)
\* the cache after the loop of helpers.py:308-324 over the events of msg
OnMessage(data, t, msg) ==
    IF msg = << >> THEN data
    ELSE OnMessage(OnEvent(data, t, msg[1].ev, msg[1].sym, msg[1].v), t, Tail(msg))

\* a connection start_polygon_websocket has registered (helpers.py:342-363)
Registered(t) ==
    [NewUpstream(t) EXCEPT !.auth = "answered", !.subscribed = TRUE,
                           !.task_started = TRUE, !.listening = TRUE]

\* the record of a session that asked for t, got connection c from
\* start_polygon_websocket while the market was open, and whose client was
\* gone when the "connected" frame was sent (main.py:82-100, 111-119, 207-208)
LeftSession(t, c) ==
    LET r0 == [NewSession EXCEPT !.ticker = t, !.pc = "send_connecting",
                                 !.out_frame = StatusFrame("connecting")]
        r1 == [Delivered(r0) EXCEPT !.market_open = TRUE, !.connect_market = "true",
                                    !.acquire_calls = 1]
    IN Raise(InnerSendFailed(AfterAcquire(r1, c)), "disconnect")

\* the connection registered for ticker t when the tickers of ts are
\* subscribed in the order SPY, QQQ
ConnOf(t, ts) == IF t = "SPY" \/ "SPY" \notin ts THEN 1 ELSE 2

\* the sessions are over and have left their connections behind: the first
\* one asked for SPY, the second one for t2
ListenInit ==
    /\ HistIdle
    /\ websocketsInstalled = TRUE
    /\ \E t2 \in Tickers :
         LET ts == {"SPY", t2} IN
         /\ upstream = IF t2 = "SPY" THEN << Registered("SPY") >>
                       ELSE << Registered("SPY"), Registered(t2) >>
         /\ websocket_connections =
               [t \in Tickers |-> IF t \in ts THEN ConnOf(t, ts) ELSE NoConn]
         /\ session = [s \in Sessions |->
               IF s = Arrivals[1] THEN LeftSession("SPY", 1)
               ELSE LeftSession(t2, ConnOf(t2, ts))]
    /\ websocket_data = [t \in Tickers |-> NoEntry]

\* one message arrives on connection c and the loop of helpers.py:304-324
\* handles its events in order
Listen(c, msg) ==
    /\ c \in DOMAIN upstream
    /\ upstream[c].listening
    /\ websocket_data' = OnMessage(websocket_data, upstream[c].ticker, msg)
    /\ inbound' = [conn |-> c, events |-> msg]
    /\ UNCHANGED << websocketsInstalled, upstream, websocket_connections, session,
                    hpc, quantity, unit, plan, plan_fixed, response, fetch_unit,
                    fetch_raises, fetched, tfVars, btVars, stVars >>

ListenNext ==
    \/ \E c \in DOMAIN upstream, msg \in FeedMessages : Listen(c, msg)
    \/ \E c \in DOMAIN upstream : ReceiveFails(c)

SpecListen == ListenInit /\ [][ListenNext]_vars

\* the indices of the events of kind ev for symbol t in a message
EventsFor(msg, ev, t) == { i \in DOMAIN msg : msg[i].ev = ev /\ msg[i].sym = t }

\* the last index of a non-empty set of indices
LastOf(S) == CHOOSE i \in S : \A j \in S : j <= i

\* C31: when the receive task of a connection has handled a message, the
\* cached state of the connection's instrument holds the last trade of the
\* message for that instrument, if any, and its last quote, if any; it is
\* unchanged when no event of the message is for the instrument, and the
\* cached state of every other instrument is unchanged.
C31_EventsUpdateCache ==
    [][ ( inbound'.conn # NoConn
          /\ ( inbound' # inbound \/ websocket_data' # websocket_data ) )
        => LET msg == inbound'.events
               t == upstream[inbound'.conn].ticker
               trades == EventsFor(msg, "T", t)
               quotes == EventsFor(msg, "Q", t)
           IN /\ ( trades # {} => websocket_data'[t].trade = msg[LastOf(trades)].v )
              /\ ( quotes # {} => websocket_data'[t].quote = msg[LastOf(quotes)].v )
              /\ ( (trades = {} /\ quotes = {})
                    => websocket_data'[t] = websocket_data[t] )
              /\ \A t2 \in Tickers \ {t} :
                    websocket_data'[t2] = websocket_data[t2] ]_vars

\* C31, the part the code has: trades of the instrument are cached, and
\* messages without one change nothing
C31_TradesUpdateCache ==
    [][ ( inbound'.conn # NoConn
          /\ ( inbound' # inbound \/ websocket_data' # websocket_data ) )
        => LET msg == inbound'.events
               t == upstream[inbound'.conn].ticker
               trades == EventsFor(msg, "T", t)
           IN /\ ( trades # {} => websocket_data'[t].trade = msg[LastOf(trades)].v )
              /\ ( trades = {} => websocket_data'[t] = websocket_data[t] )
              /\ \A t2 \in Tickers \ {t} :
                    websocket_data'[t2] = websocket_data[t2] ]_vars

\* the state ListenInit starts from, in the live path
C31_LeftBehind ==
    /\ \A s \in Sessions : session[s].pc = "closed"
    /\ \A t \in Tickers : websocket_data[t] = NoEntry
    /\ \E t2 \in Tickers :
         /\ upstream = IF t2 = "SPY" THEN << Registered("SPY") >>
                       ELSE << Registered("SPY"), Registered(t2) >>
         /\ session = [s \in Sessions |->
               IF s = Arrivals[1] THEN LeftSession("SPY", 1)
               ELSE LeftSession(t2, ConnOf(t2, {"SPY", t2}))]

----------------------------------------------------------------------------
\* The planner of helper_functions.py against the ceiling

\* calendar minutes of one `u`
CalendarMinutes(u) ==
    CASE u = "minute" -> 1
      [] u = "hour" -> 60
      [] u = "day" -> 1440
      [] u = "week" -> 7 * 1440
      [] u = "month" -> 30 * 1440
      [] OTHER -> 365 * 1440

\* C34: the window of total_days days the planner of helper_functions.py
\* returns, divided by the length of the candle it chose, is at most 300.
C34_FixedPlanUnderCeiling ==
    hpc = "planned"
    => plan_fixed.days_back * CalendarMinutes("day")
         <= MAX_CANDLE_LIMIT * plan_fixed.mult * CalendarMinutes(plan_fixed.unit)

----------------------------------------------------------------------------
\* The planner of helpers.py and the length of the window

\* C36: for the unit requested, no quantity smaller than the one requested
\* gets candles longer than the ones of the plan.
C36_LongerWindowCoarser ==
    hpc = "planned"
    => \A q1 \in Quantities(unit) :
         q1 <= quantity
         => CandleMinutes(Chosen(q1, unit)) <= CandleMinutes(<< plan.unit, plan.mult >>)

\* C36 witness: the plan is the last resort, and a smaller quantity of the
\* same unit gets the last candidate of the table
C36_Witness ==
    /\ hpc = "planned"
    /\ << plan.unit, plan.mult >> = Coarsest
    /\ \E q1 \in Quantities(unit) :
         /\ q1 < quantity
         /\ Chosen(q1, unit) = Candidates[Len(Candidates)]

----------------------------------------------------------------------------
\* backtesting-service (backtesting-service/main.py)

\* The handlers and run_backtest are coroutines of one event loop: each runs
\* from one await to the next without another one running in between.

\* StoreResults storing nothing
StoreResults_Nothing(completed, b) == completed

\* completed_backtests[backtest_id] = {...} (main.py:186-192)
StoreResults(completed, b) == [completed EXCEPT ![b] = TRUE]

\* del running_backtests[backtest_id] (main.py:195)
RemoveRunning(running, b) == [running EXCEPT ![b] = NoBacktest]

\* the ids uuid4 has given out
Submitted == { b \in BacktestIds : backtest_task[b] # "none" }

\* POST /backtest (main.py:51-73): the id is new, the entry is stored and
\* run_backtest is queued to run after the response
SubmitBacktest(b) ==
    /\ b \in BacktestIds \ Submitted
    /\ \A b2 \in BacktestIds : b2 < b => b2 \in Submitted
    /\ running_backtests' =
          [running_backtests EXCEPT ![b] = [status |-> "initializing", progress |-> 0]]
    /\ backtest_task' = [backtest_task EXCEPT ![b] = "queued"]
    /\ UNCHANGED << completed_backtests, backtest_answer, liveVars, inbound,
                    hpc, quantity, unit, plan, plan_fixed, response, fetch_unit,
                    fetch_raises, fetched, tfVars, stVars >>

\* run_backtest up to its await (main.py:161-169)
RunBacktestStart(b) ==
    /\ backtest_task[b] = "queued"
    /\ running_backtests' =
          [running_backtests EXCEPT ![b] = [status |-> "running", progress |-> 50]]
    /\ backtest_task' = [backtest_task EXCEPT ![b] = "sleeping"]
    /\ UNCHANGED << completed_backtests, backtest_answer, liveVars, inbound,
                    hpc, quantity, unit, plan, plan_fixed, response, fetch_unit,
                    fetch_raises, fetched, tfVars, stVars >>

\* run_backtest after its await (main.py:171-195)
RunBacktestFinish(b) ==
    /\ backtest_task[b] = "sleeping"
    /\ completed_backtests' = StoreResults(completed_backtests, b)
    /\ running_backtests' = RemoveRunning(running_backtests, b)
    /\ backtest_task' = [backtest_task EXCEPT ![b] = "done"]
    /\ UNCHANGED << backtest_answer, liveVars, inbound,
                    hpc, quantity, unit, plan, plan_fixed, response, fetch_unit,
                    fetch_raises, fetched, tfVars, stVars >>

\* an exception is raised after the await, before the results are stored
\* (main.py:197-201)
RunBacktestFails(b) ==
    /\ backtest_task[b] = "sleeping"
    /\ running_backtests' = [running_backtests EXCEPT ![b].status = "error"]
    /\ backtest_task' = [backtest_task EXCEPT ![b] = "failed"]
    /\ UNCHANGED << completed_backtests, backtest_answer, liveVars, inbound,
                    hpc, quantity, unit, plan, plan_fixed, response, fetch_unit,
                    fetch_raises, fetched, tfVars, stVars >>

\* the answer of get_backtest_status (main.py:75-88)
StatusOf(running, completed, b) ==
    IF running[b] # NoBacktest
    THEN [id |-> b, code |-> 200, status |-> running[b].status,
          progress |-> running[b].progress]
    ELSE IF completed[b]
         THEN [id |-> b, code |-> 200, status |-> "completed", progress |-> 100]
         ELSE [id |-> b, code |-> 404, status |-> "none", progress |-> 0]

\* GET /backtest/{b}/status
GetBacktestStatus(b) ==
    /\ backtest_answer' = StatusOf(running_backtests, completed_backtests, b)
    /\ UNCHANGED << running_backtests, completed_backtests, backtest_task,
                    liveVars, inbound,
                    hpc, quantity, unit, plan, plan_fixed, response, fetch_unit,
                    fetch_raises, fetched, tfVars, stVars >>

BacktestNext ==
    \/ \E b \in BacktestIds : SubmitBacktest(b)
    \/ \E b \in BacktestIds : RunBacktestStart(b)
    \/ \E b \in BacktestIds : RunBacktestFinish(b)
    \/ \E b \in BacktestIds : RunBacktestFails(b)
    \/ \E b \in BacktestIds : GetBacktestStatus(b)

BacktestInit == LiveIdle /\ HistIdle

SpecBacktest == BacktestInit /\ [][BacktestNext]_vars

\* C32: after every step, each submitted id is a key of exactly one of
\* running_backtests and completed_backtests; and a status request answered
\* with 404 is for an id that has not been submitted.
C32_SubmittedIsFound ==
    [][ /\ \A b \in BacktestIds :
             backtest_task'[b] # "none"
             => ( running_backtests'[b] # NoBacktest <=> ~completed_backtests'[b] )
        /\ ( (backtest_answer' # backtest_answer /\ backtest_answer'.code = 404)
              => backtest_task[backtest_answer'.id] = "none" ) ]_vars

\* C32 witness: a status request for a backtest whose run is over was
\* answered "completed", while another backtest is running
C32_Witness ==
    \E b, b2 \in BacktestIds :
      /\ backtest_task[b] = "done"
      /\ backtest_answer = [id |-> b, code |-> 200, status |-> "completed",
                            progress |-> 100]
      /\ backtest_task[b2] = "sleeping"
      /\ running_backtests[b2].status = "running"

----------------------------------------------------------------------------
\* strategy-service (strategy-service/main.py)

\* The handlers run on the event loop; run_strategy_subprocess runs on a
\* thread of its own, which the interpreter may suspend between any two of its
\* statements.

\* what the strategy service leaves alone
stOthers == << liveVars, inbound, btVars,
               hpc, quantity, unit, plan, plan_fixed, response, fetch_unit,
               fetch_raises, fetched, tfVars >>

\* the keys of running_strategies
RunningNames == { n \in StrategyNames : running_strategies[n] # NoStrategy }

\* the runs started so far
Started == { k \in Runs : strategy_thread[k] # NoThread }

\* the dict of main.py:110-116, for the run k
NewStrategy(k) ==
    [id |-> Cardinality(RunningNames), status |-> "running", output |-> "",
     error |-> "", return_code |-> "None", run |-> k]

\* the test of main.py:75
AlreadyRunning(n) == running_strategies[n] # NoStrategy

\* POST /strategies/{n}/run (main.py:62-130); the thread starts, or
\* thread.start() raises
RunStrategy(n, starts) ==
    IF n \notin OnDisk
    THEN /\ strategy_answer' = [op |-> "run", name |-> n, code |-> 404, status |-> "none"]
         /\ UNCHANGED << running_strategies, strategy_thread, stOthers >>
    ELSE IF AlreadyRunning(n)
    THEN /\ strategy_answer' = [op |-> "run", name |-> n, code |-> 409, status |-> "none"]
         /\ UNCHANGED << running_strategies, strategy_thread, stOthers >>
    ELSE /\ Started # Runs
         /\ LET k == Cardinality(Started) + 1 IN
            /\ running_strategies' = [running_strategies EXCEPT ![n] = NewStrategy(k)]
            /\ IF starts
               THEN /\ strategy_thread' =
                          [strategy_thread EXCEPT ![k] = [name |-> n, pc |-> "subprocess"]]
                    /\ strategy_answer' =
                          [op |-> "run", name |-> n, code |-> 200, status |-> "running"]
               ELSE /\ strategy_thread' =
                          [strategy_thread EXCEPT ![k] = [name |-> n, pc |-> "not_started"]]
                    /\ strategy_answer' =
                          [op |-> "run", name |-> n, code |-> 500, status |-> "none"]
         /\ UNCHANGED stOthers

\* subprocess.run returns, or raises (main.py:91-97, 105)
SubprocessEnds(k, raises) ==
    /\ strategy_thread[k].pc = "subprocess"
    /\ strategy_thread' = [strategy_thread EXCEPT ![k].pc =
          IF raises THEN "except_status" ELSE "store_status"]
    /\ UNCHANGED << running_strategies, strategy_answer, stOthers >>

\* the statements of the thread after subprocess.run, each a store into
\* running_strategies[strategy_name], and the statement that follows each
ThreadStores ==
    [store_status |-> [field |-> "status", value |-> "completed", next |-> "store_output"],
     store_output |-> [field |-> "output", value |-> "stdout", next |-> "store_error"],
     store_error |-> [field |-> "error", value |-> "stderr", next |-> "store_return_code"],
     store_return_code |-> [field |-> "return_code", value |-> "rc", next |-> "ended"],
     except_status |-> [field |-> "status", value |-> "error", next |-> "except_error"],
     except_error |-> [field |-> "error", value |-> "exception", next |-> "ended"]]

\* running_strategies[n][field] = value
Store(strategies, n, field, value) ==
    [strategies EXCEPT ![n] = [@ EXCEPT ![field] = value]]

\* one statement of main.py:100-103 or 106-107 of the thread of run k: the
\* store, or KeyError when the name is not a key, which the try of main.py:86
\* hands to the except branch and the except branch lets out of the thread
ThreadStep(k) ==
    LET pc == strategy_thread[k].pc
        n == strategy_thread[k].name
    IN /\ pc \in DOMAIN ThreadStores
       /\ IF running_strategies[n] # NoStrategy
          THEN /\ running_strategies' =
                     Store(running_strategies, n, ThreadStores[pc].field,
                           ThreadStores[pc].value)
               /\ strategy_thread' = [strategy_thread EXCEPT ![k].pc = ThreadStores[pc].next]
          ELSE /\ strategy_thread' = [strategy_thread EXCEPT ![k].pc =
                     IF pc \in {"except_status", "except_error"}
                     THEN "died" ELSE "except_status"]
               /\ UNCHANGED running_strategies
       /\ UNCHANGED << strategy_answer, stOthers >>

\* GET /strategies/{n}/status (main.py:132-147)
GetStrategyStatus(n) ==
    /\ strategy_answer' =
          IF running_strategies[n] = NoStrategy
          THEN [op |-> "status", name |-> n, code |-> 404, status |-> "none"]
          ELSE [op |-> "status", name |-> n, code |-> 200,
                status |-> running_strategies[n].status]
    /\ UNCHANGED << running_strategies, strategy_thread, stOthers >>

\* DELETE /strategies/{n} (main.py:163-172)
StopStrategy(n) ==
    /\ IF running_strategies[n] = NoStrategy
       THEN /\ strategy_answer' = [op |-> "stop", name |-> n, code |-> 404, status |-> "none"]
            /\ UNCHANGED running_strategies
       ELSE /\ strategy_answer' = [op |-> "stop", name |-> n, code |-> 200, status |-> "none"]
            /\ running_strategies' = [running_strategies EXCEPT ![n] = NoStrategy]
    /\ UNCHANGED << strategy_thread, stOthers >>

StrategyNext ==
    \/ \E n \in StrategyNames, starts \in BOOLEAN : RunStrategy(n, starts)
    \/ \E k \in Runs, raises \in BOOLEAN : SubprocessEnds(k, raises)
    \/ \E k \in Runs : ThreadStep(k)
    \/ \E n \in StrategyNames : GetStrategyStatus(n)
    \/ \E n \in StrategyNames : StopStrategy(n)

StrategyInit == LiveIdle /\ HistIdle

SpecStrategy == StrategyInit /\ [][StrategyNext]_vars

\* C39: a step of the thread of a run that changes the dict of a strategy
\* changes the dict its own run stored.
C39_ThreadWritesOwnRun ==
    [][ \A k \in Runs :
          ( strategy_thread'[k] # strategy_thread[k]
            /\ strategy_thread[k] # NoThread
            /\ running_strategies' # running_strategies )
          => running_strategies[strategy_thread[k].name].run = k ]_vars

\* C40: a run request is answered 409 only while the dict of the strategy
\* has status "running".
C40_ConflictOnlyWhileRunning ==
    [][ ( strategy_answer' # strategy_answer
          /\ strategy_answer'.op = "run" /\ strategy_answer'.code = 409 )
        => running_strategies[strategy_answer'.name].status = "running" ]_vars

====
